---- MODULE Spec2Model ----
(***************************************************************************)
(* Model of the tool-installation core of mcp-dev-env-setup:               *)
(*   src/src/installers/unified-installer.ts   (orchestrator, configurator)*)
(*   src/src/validators/environment-validator.ts (catalog, package-manager *)
(*                                              registry, as concatenated) *)
(*   src/unnamed/part_002                      (shell primitives)          *)
(*                                                                         *)
(* The host is modelled by: the platform name, what `which` answers for    *)
(* each command (decided the first time a command is probed and stable     *)
(* afterwards, except that a successful install command may put the        *)
(* tool's verify command on PATH), and the shell profile file as a         *)
(* sequence of lines.  Every shell command and every file access has a     *)
(* nondeterministic outcome.                                               *)
(***************************************************************************)
EXTENDS Integers, Sequences, FiniteSets, TLC

VARIABLES
    platform,     \* process.platform
    known,        \* command -> "yes" | "no" | "unprobed": the answers of `which`
    fileExists,   \* whether the shell profile file exists
    profile,      \* the lines of the shell profile file
    tasks,        \* task id -> the state of one top-level operation
    faulted,      \* history: some profile read/append/write has failed
    pmInstalled,  \* (SpecPM) the package-manager commands on PATH
    pmRuns,       \* (SpecPM) results of successive detectPackageManager calls
    check,        \* (SpecV) the state of the validator operation in progress
    catalogExt,   \* the entry added to TOOL_CONFIGS, "none" for the catalog as shipped
    applied,      \* (SpecFn) the calls of the synchronous functions made so far, with their results
    boot          \* (SpecStart) the start of the program: its arguments and what has been started

vars == <<platform, known, fileExists, profile, tasks, faulted, pmInstalled, pmRuns, check, catalogExt, applied, boot>>

----------------------------------------------------------------------------
(* Bounds *)

\* longest input of installMultipleTools
MaxBatch == 2
\* how many times detectPackageManager is repeated in SpecPM
MaxDetect == 2

----------------------------------------------------------------------------
(* Package Manager Registry (environment-validator.ts 574-796) *)

Platforms == {"darwin", "linux", "win32", "freebsd"}

\* detectOS: process.platform -> OperatingSystem
detectOS(p) ==
    CASE p = "darwin" -> "darwin"
      [] p = "linux"  -> "linux"
      [] p = "win32"  -> "win32"
      [] OTHER        -> "unknown"

PackageManagers == {"homebrew", "apt", "dnf", "yum", "pacman", "zypper"}

\* managers[name].command
ManagerCommand(m) ==
    CASE m = "homebrew" -> "brew"
      [] m = "apt"      -> "apt-get"
      [] m = "dnf"      -> "dnf"
      [] m = "yum"      -> "yum"
      [] m = "pacman"   -> "pacman"
      [] m = "zypper"   -> "zypper"

\* managers[name].installCmd
ManagerInstallCmd(m) ==
    CASE m = "homebrew" -> "brew install"
      [] m = "apt"      -> "sudo apt-get install -y"
      [] m = "dnf"      -> "sudo dnf install -y"
      [] m = "yum"      -> "sudo yum install -y"
      [] m = "pacman"   -> "sudo pacman -S --noconfirm"
      [] m = "zypper"   -> "sudo zypper install -y"

PMCommands == {ManagerCommand(m) : m \in PackageManagers}

\* mutant: dnf is tried before apt
checkOrderDnfFirst(os) ==
    IF os = "darwin" THEN <<"homebrew">>
    ELSE IF os = "linux" THEN <<"dnf", "apt", "yum", "pacman", "zypper">>
    ELSE <<>>

\* checkOrder, by OS
LinuxOrder == <<"apt", "dnf", "yum", "pacman", "zypper">>

checkOrder(os) ==
    IF os = "darwin" THEN <<"homebrew">>
    ELSE IF os = "linux" THEN LinuxOrder
    ELSE <<>>

\* The loop "for (const managerName of checkOrder)": probes the candidates from
\* index i on, against the set `onPath` of commands `which` finds; returns the
\* manager found ("none" for null), whether its available flag was set, and
\* the commands probed, in order.
\* mutant: the first candidate is returned as available without a probe
DetectFromUnprobed(order, i, onPath, probed) ==
    IF i > Len(order)
    THEN [name |-> "none", available |-> FALSE, probes |-> probed]
    ELSE [name |-> order[i], available |-> TRUE, probes |-> probed]

RECURSIVE DetectFrom(_, _, _, _)
DetectFrom(order, i, onPath, probed) ==
    IF i > Len(order)
    THEN [name |-> "none", available |-> FALSE, probes |-> probed]
    ELSE LET cmd == ManagerCommand(order[i])
         IN  IF cmd \in onPath
             THEN [name |-> order[i], available |-> TRUE,
                   probes |-> Append(probed, cmd)]
             ELSE DetectFrom(order, i + 1, onPath, Append(probed, cmd))

detectPackageManager(p, onPath) == DetectFrom(checkOrder(detectOS(p)), 1, onPath, <<>>)

\* lines 784-786
needsPackageManagerInstall(os) == os = "darwin"

HomebrewInstallScript ==
    "/bin/bash -c \"$(curl -fsSL https://raw.githubusercontent.com/Homebrew/install/HEAD/install.sh)\""

\* mutant: a command for Linux too
getPackageManagerInstallCommandAnyUnix(os) ==
    IF os \in {"darwin", "linux"} THEN HomebrewInstallScript ELSE "null"

\* lines 791-796 ("null": the function returns null)
getPackageManagerInstallCommand(os) ==
    IF os = "darwin" THEN HomebrewInstallScript ELSE "null"

----------------------------------------------------------------------------
(* Tool Catalog (environment-validator.ts 164-572) *)

\* Object.keys(TOOL_CONFIGS), in definition order
getAllToolNames == <<"python", "nodejs", "git", "docker", "java", "go", "rust", "flutter">>

CatalogNames == {getAllToolNames[i] : i \in DOMAIN getAllToolNames}

\* TOOL_CONFIGS is an object literal, so the lookup TOOL_CONFIGS[toolName] also
\* resolves the property names every object inherits from Object.prototype;
\* the value found there is truthy and has none of the ToolConfig fields.
ObjectPrototypeKeys == {"constructor", "toString", "valueOf", "hasOwnProperty", "__proto__"}

displayName(t) ==
    CASE t = "python"  -> "Python"
      [] t = "nodejs"  -> "Node.js"
      [] t = "git"     -> "Git"
      [] t = "docker"  -> "Docker"
      [] t = "java"    -> "Java"
      [] t = "go"      -> "Go"
      [] t = "rust"    -> "Rust"
      [] t = "flutter" -> "Flutter"
      [] t = "mytool"  -> "My Tool"
      [] OTHER         -> "undefined"

commandToCheck(t) ==
    CASE t = "python"  -> "python3"
      [] t = "nodejs"  -> "node"
      [] t = "git"     -> "git"
      [] t = "docker"  -> "docker"
      [] t = "java"    -> "java"
      [] t = "go"      -> "go"
      [] t = "rust"    -> "rustc"
      [] t = "flutter" -> "flutter"
      [] t = "mytool"  -> "mytool"
      [] OTHER         -> "undefined"

\* envVars as the sequence of its "export K=V" lines (empty: the field is absent)
envVars(t) ==
    CASE t = "java"    -> <<"export JAVA_HOME=\"/usr/lib/jvm/java-17-openjdk\"">>
      [] t = "go"      -> <<"export GOPATH=\"$HOME/go\"", "export PATH=\"$PATH:$GOPATH/bin\"">>
      [] t = "flutter" -> <<"export PATH=\"$PATH:$HOME/development/flutter/bin\"">>
      [] t = "mytool"  -> <<"export MYTOOL_HOME=\"/usr/local/mytool\"">>
      [] OTHER         -> <<>>

\* shellConfig ("": the field is absent)
shellConfig(t) ==
    CASE t = "rust"   -> "source $HOME/.cargo/env"
      [] t = "mytool" -> "export PATH=\"$PATH:$MYTOOL_HOME/bin\""
      [] OTHER        -> ""

\* The catalog is a table meant to be extended: the documentation's "Adding a
\* New Tool" adds the entry `mytool`, with install methods for homebrew and apt
\* only. catalogExt says whether that entry is there, without or with the
\* optional manualInstallUrl field.
CatalogExtensions == {"mytool", "mytool+url"}

AddedNames == IF catalogExt = "none" THEN {} ELSE {"mytool"}

AddedManualUrl == "https://example.com/mytool"

manualInstallUrl(t) ==
    CASE t = "docker"  -> "https://docs.docker.com/engine/install/"
      [] t = "flutter" -> "https://flutter.dev/docs/get-started/install"
      [] t = "mytool" /\ catalogExt = "mytool+url" -> AddedManualUrl
      [] OTHER         -> ""

\* whether toolConfig.installMethods is an object at all
HasInstallMethods(t) == t \in CatalogNames \cup {"mytool"}

\* whether toolConfig.installMethods[pm] is defined
HasMethod(t, pm) ==
    \/ t \in CatalogNames /\ pm \in PackageManagers
    \/ t = "mytool" /\ pm \in {"homebrew", "apt"}

\* installMethods[pm].alternativeCommands (empty: the field is absent)
NodeSourceDeb == <<"curl -fsSL https://deb.nodesource.com/setup_lts.x | sudo -E bash -", "sudo apt-get install -y nodejs">>

NodeSourceRpm == <<"curl -fsSL https://rpm.nodesource.com/setup_lts.x | sudo bash -", "sudo yum install -y nodejs">>

alternativeCommands(t, pm) ==
    CASE t = "nodejs" /\ pm = "apt" -> NodeSourceDeb
      [] t = "nodejs" /\ pm = "yum" -> NodeSourceRpm
      [] t = "rust" /\ pm = "apt" -> <<"curl --proto \"=https\" --tlsv1.2 -sSf https://sh.rustup.rs | sh -s -- -y">>
      [] t = "flutter" /\ pm \in {"apt", "dnf", "yum", "zypper"} ->
            <<"git clone https://github.com/flutter/flutter.git -b stable $HOME/development/flutter">>
      [] OTHER -> <<>>

\* installMethods[pm].postInstallSteps (empty: the field is absent)
DockerPostInstall == <<"sudo systemctl start docker", "sudo systemctl enable docker", "sudo usermod -aG docker $USER">>

postInstallSteps(t, pm) ==
    CASE t = "python" /\ pm = "homebrew" -> <<"python3 -m ensurepip --upgrade">>
      [] t = "docker" /\ pm \in {"apt", "dnf", "yum", "pacman", "zypper"} -> DockerPostInstall
      [] t = "java" /\ pm = "homebrew" ->
            <<"sudo ln -sfn /opt/homebrew/opt/openjdk@17/libexec/openjdk.jdk /Library/Java/JavaVirtualMachines/openjdk-17.jdk">>
      [] OTHER -> <<>>

\* getToolConfig(toolName) is truthy
getToolConfig(t) == t \in CatalogNames \cup AddedNames \cup ObjectPrototypeKeys

----------------------------------------------------------------------------
(* Shell profile text *)

\* the marker line the Configurator looks for
Marker(t) == "# " \o displayName(t) \o " Configuration"

\* configureShellEnvironment, lines 212-224: the text it would append, as lines
configContent(t) ==
    (IF envVars(t) # <<>> THEN <<"", Marker(t)>> \o envVars(t) ELSE <<>>)
    \o (IF shellConfig(t) # "" THEN <<shellConfig(t)>> ELSE <<>>)

\* installNvm, lines 287-292
nvmConfig == <<"", "# NVM Configuration", "export NVM_DIR=\"$HOME/.nvm\"", "[ -s \"$NVM_DIR/nvm.sh\" ] && \\. \"$NVM_DIR/nvm.sh\"", "[ -s \"$NVM_DIR/bash_completion\" ] && \\. \"$NVM_DIR/bash_completion\"">>

\* installAndroidStudio, lines 412-418
androidConfig == <<"", "# Android Configuration", "export ANDROID_HOME=$HOME/Library/Android/sdk", "export PATH=$PATH:$ANDROID_HOME/emulator", "export PATH=$PATH:$ANDROID_HOME/platform-tools", "export PATH=$PATH:$ANDROID_HOME/cmdline-tools/latest/bin">>

\* a line a user may already have in the profile
UserLine == "alias ll='ls -l'"

\* String.includes on one line: which of the searched needles the line contains
LineIncludes(line, needle) ==
    CASE needle = "NVM_DIR"      -> \E i \in 3..5 : line = nvmConfig[i]
      [] needle = "ANDROID_HOME" -> \E i \in 3..6 : line = androidConfig[i]
      [] OTHER                   -> line = needle

\* content.includes(needle)
Includes(content, needle) == \E i \in DOMAIN content : LineIncludes(content[i], needle)

\* occurrences of `block` as consecutive lines of `content`
BlockCount(content, block) ==
    IF block = <<>> THEN 0
    ELSE Cardinality({i \in 1..Len(content) :
            /\ i + Len(block) - 1 <= Len(content)
            /\ SubSeq(content, i, i + Len(block) - 1) = block})

IsPrefix(a, b) == Len(a) <= Len(b) /\ SubSeq(b, 1, Len(a)) = a

\* installMethods[pm].packageName
packageName(t, pm) ==
    CASE t = "python" ->
            (CASE pm = "homebrew" -> "python@3"
               [] pm = "apt"      -> "python3 python3-pip python3-venv"
               [] pm = "pacman"   -> "python python-pip"
               [] OTHER           -> "python3 python3-pip")
      [] t = "nodejs" -> (IF pm = "homebrew" THEN "node" ELSE "nodejs npm")
      [] t = "git" -> "git"
      [] t = "docker" ->
            (CASE pm = "homebrew" -> "--cask docker"
               [] pm = "apt"      -> "docker.io docker-compose"
               [] OTHER           -> "docker docker-compose")
      [] t = "java" ->
            (CASE pm = "homebrew" -> "openjdk@17"
               [] pm = "apt"      -> "openjdk-17-jdk"
               [] pm = "pacman"   -> "jdk17-openjdk"
               [] OTHER           -> "java-17-openjdk-devel")
      [] t = "go" -> (IF pm \in {"apt", "dnf", "yum"} THEN "golang" ELSE "go")
      [] t = "rust" ->
            (CASE pm \in {"homebrew", "pacman"} -> "rust"
               [] pm = "apt"                    -> "curl build-essential"
               [] OTHER                         -> "rust cargo")
      [] t = "flutter" ->
            (CASE pm = "homebrew" -> "--cask flutter"
               [] pm = "pacman"   -> "flutter"
               [] OTHER           -> "git curl unzip")
      [] t = "mytool" -> "mytool"

\* installTool line 142: the primary install command
packageCmd(t, pm) == ManagerInstallCmd(pm) \o " " \o packageName(t, pm)

----------------------------------------------------------------------------
(* Host *)

VerifyCommands == {commandToCheck(t) : t \in CatalogNames}

\* every command the modelled code passes to `which`
AllCommands == PMCommands \cup VerifyCommands \cup {"undefined", "nvm", "snap", "mytool"}

\* commandExists(cmd) may answer `ans` in the current host state
MayAnswer(cmd, ans) == known[cmd] = "unprobed" \/ (known[cmd] = "yes") = ans

Answered(kn, cmd, ans) == [kn EXCEPT ![cmd] = IF ans THEN "yes" ELSE "no"]

\* the sets of package-manager commands on PATH that agree with the answers so far
PossiblePaths ==
    {S \in SUBSET PMCommands :
        \A c \in PMCommands : /\ known[c] = "yes" => c \in S
                              /\ known[c] = "no" => c \notin S}

\* the answers after detectPackageManager probed `probes` against `onPath`
AfterProbes(kn, probes, onPath) ==
    [c \in DOMAIN kn |->
        IF \E j \in DOMAIN probes : probes[j] = c
        THEN (IF c \in onPath THEN "yes" ELSE "no")
        ELSE kn[c]]

----------------------------------------------------------------------------
(* Results and tasks *)

NoDetails == <<"none", "", 0>>

InstallResult(s, m, d, r) == [success |-> s, message |-> m, details |-> d, needsRestart |-> r]

NoResult == InstallResult(FALSE, "pending", NoDetails, "absent")

NoResults == [n \in {} |-> NoResult]

\* the program start is not under consideration
NoBoot == [args |-> <<>>, build |-> "none", pc |-> "none", servers |-> 0, cli |-> FALSE, crashed |-> FALSE]

IdleTask ==
    [op |-> "none", names |-> <<>>, version |-> "none", k |-> 0, pc |-> "idle", status |-> "idle",
     tool |-> "", pm |-> "none", altIdx |-> 0, postIdx |-> 0,
     installDetails |-> NoDetails, needsRestart |-> FALSE,
     ret |-> NoResult, results |-> NoResults, log |-> <<>>,
     outer |-> "none", skip |-> {}, step |-> 0]

\* one entry of a task's history: a call, a shell command, a file access or a
\* return, made for element k of the input, with the tool and the package
\* manager of the installTool call in progress
Event(tk, kind, cmd, n, ok) ==
    [k |-> tk.k, kind |-> kind, cmd |-> cmd, n |-> n, ok |-> ok,
     tool |-> tk.tool, pm |-> tk.pm, res |-> NoResult, timedOut |-> FALSE]

Logged(tk, kind, cmd, n, ok) == [tk EXCEPT !.log = Append(@, Event(tk, kind, cmd, n, ok))]

\* one "detect" event per command probed by detectPackageManager
RECURSIVE LoggedProbes(_, _, _, _)
LoggedProbes(tk, probes, j, onPath) ==
    IF j > Len(probes) THEN tk
    ELSE LoggedProbes(Logged(tk, "detect", probes[j], j, probes[j] \in onPath), probes, j + 1, onPath)

----------------------------------------------------------------------------
(* Inputs *)

\* tool names a caller may pass: the catalog, a name inherited from
\* Object.prototype, and a name that resolves to nothing
ToolNames == CatalogNames \cup {"toString", "no-such-tool"}

\* names used in the inputs of installMultipleTools
BatchNames == {"java", "rust", "toString", "no-such-tool"}

SeqsUpTo(S, n) == UNION {[1..m -> S] : m \in 0..n}

BatchInputs == SeqsUpTo(BatchNames, MaxBatch)

InitialProfiles == {<<>>, <<UserLine>>}

----------------------------------------------------------------------------
(* installTool, unified-installer.ts 94-205 *)

\* a fresh call installTool(name), as element k of the caller's input
EnterTool(tk, name, k) ==
    Logged([tk EXCEPT !.k = k, !.pc = "it_lookup", !.tool = name, !.pm = "none",
                      !.altIdx = 0, !.postIdx = 0, !.installDetails = NoDetails,
                      !.needsRestart = FALSE, !.ret = NoResult],
           "call", name, 0, TRUE)

\* installAndroidStudio 383-398: what follows the Java prerequisite
AfterJava == IF detectOS(platform) = "linux" THEN "as_snap" ELSE "as_exec"

\* the top-level operation returns r
Finish(tk, r) ==
    [Logged([tk EXCEPT !.k = 0], "result", tk.op, 0, r.success)
        EXCEPT !.ret = r, !.pc = "done", !.status = "returned"]

\* mutant: the Android Studio flow goes on whatever installTool('java') returned
ReturnToolProceeds(tk, r) ==
    LET t0 == [tk EXCEPT !.ret = r]
        t1 == [t0 EXCEPT !.log = Append(@, [Event(t0, "return", tk.tool, 0, r.success) EXCEPT !.res = r])]
    IN  CASE tk.op = "installTool" -> [t1 EXCEPT !.pc = "done", !.status = "returned"]
          [] tk.op = "installMultipleTools" -> [t1 EXCEPT !.pc = "mt_loop"]
          [] tk.op = "installNodeViaTarget" -> Finish(t1, r)
          [] tk.op = "installAndroidStudio" -> [t1 EXCEPT !.pc = AfterJava, !.k = 0]

\* installTool returns r to its caller, which resumes
ReturnTool(tk, r) ==
    LET t0 == [tk EXCEPT !.ret = r]
        t1 == [t0 EXCEPT !.log = Append(@, [Event(t0, "return", tk.tool, 0, r.success) EXCEPT !.res = r])]
    IN  CASE tk.op = "installTool" -> [t1 EXCEPT !.pc = "done", !.status = "returned"]
          [] tk.op = "installMultipleTools" -> [t1 EXCEPT !.pc = "mt_loop"]
          [] tk.op = "installNodeViaTarget" -> Finish(t1, r)
          [] tk.op = "installAndroidStudio" ->
                IF r.success
                THEN [t1 EXCEPT !.pc = AfterJava, !.k = 0]
                ELSE Finish(t1, InstallResult(FALSE, "Failed to install Java (required for Android development)", r.details, "absent"))

\* an exception leaves installTool; no caller in the module catches it
ThrowTool(tk) ==
    [Logged(tk, "throw", tk.tool, 0, FALSE) EXCEPT !.pc = "done", !.status = "thrown"]

\* lines 168-180: where the flow goes after the install command succeeded
AfterPost(t) == IF shellConfig(t) # "" \/ envVars(t) # <<>> THEN "it_cfg_read" ELSE "it_verify"

AfterInstall(t, pm) == IF postInstallSteps(t, pm) # <<>> THEN "it_post" ELSE AfterPost(t)

\* mutant: the failure carries the error of the last command tried
InstallFailedLast(tk) ==
    ReturnTool(tk, InstallResult(FALSE, "Failed to install",
                                 IF tk.altIdx > 0 THEN <<"error", "alt", tk.altIdx>> ELSE <<"error", "primary", 0>>,
                                 "absent"))

\* lines 160-166: the install command and every alternative failed
InstallFailed(tk) ==
    ReturnTool(tk, InstallResult(FALSE, "Failed to install", <<"error", "primary", 0>>, "absent"))

\* how the child process of execAsync can end: exit status 0, another exit
\* status, killed at the timeout, or not started at all; with what it printed
ExecEndings == {"exit0", "nonzero", "timeout", "spawn-error"}

ExecOutcomes == [ending : ExecEndings, stdout : {"", "text"}]

\* mutant: the timeout is reported as an outcome of its own
executeCommandTimeoutApart(raw) ==
    [success |-> raw.ending = "exit0",
     stdout |-> raw.stdout,
     error |-> IF raw.ending = "exit0" THEN "absent"
               ELSE IF raw.ending = "timeout" THEN "timeout" ELSE "error.message"]

\* part_002 lines 16-39: the promise of execAsync resolves or rejects, and
\* either way a CommandResult is returned
executeCommand(raw) ==
    [success |-> raw.ending = "exit0",
     stdout |-> raw.stdout,
     error |-> IF raw.ending = "exit0" THEN "absent" ELSE "error.message"]

\* part_002 lines 44-47, on the outcome of `which <command>`
commandExists(raw) == executeCommand(raw).success /\ executeCommand(raw).stdout # ""

\* mutant: the flow goes on to the later steps whatever the primary command returned
AfterPrimaryUnchecked(t1, packageResult) ==
    [t1 EXCEPT !.installDetails = <<"stdout", "primary", 0>>,
               !.postIdx = 1, !.pc = AfterInstall(t1.tool, t1.pm)]

\* mutant: a failed primary command is run again
AfterPrimaryRetried(t1, packageResult) ==
    IF packageResult.success
    THEN [t1 EXCEPT !.installDetails = <<"stdout", "primary", 0>>,
                    !.postIdx = 1, !.pc = AfterInstall(t1.tool, t1.pm)]
    ELSE [t1 EXCEPT !.pc = "it_primary"]

\* lines 144-157 and 159-166: where the flow goes after the primary command
AfterPrimary(t1, packageResult) ==
    IF packageResult.success
    THEN [t1 EXCEPT !.installDetails = <<"stdout", "primary", 0>>,
                    !.postIdx = 1, !.pc = AfterInstall(t1.tool, t1.pm)]
    ELSE IF alternativeCommands(t1.tool, t1.pm) # <<>>
    THEN [t1 EXCEPT !.altIdx = 1, !.pc = "it_alt"]
    ELSE InstallFailed(t1)

\* mutant: the probe's answer is ignored and the install goes ahead
ShortCircuitNever(alreadyInstalled) == FALSE

\* line 109: an installed tool ends the call
ShortCircuit(alreadyInstalled) == alreadyInstalled

\* lines 98-114: catalog lookup and the first existence probe
ITLookup(i) ==
    LET tk == tasks[i] IN
    /\ tk.pc = "it_lookup"
    /\ IF ~getToolConfig(tk.tool)
       THEN /\ tasks' = [tasks EXCEPT ![i] =
                    ReturnTool(tk, InstallResult(FALSE, "Unknown tool", NoDetails, "absent"))]
            /\ UNCHANGED known
       ELSE \E raw \in ExecOutcomes :
            LET cmd == commandToCheck(tk.tool)
                ans == commandExists(raw)
                t1 == Logged(tk, "which", cmd, 0, ans)
            IN  /\ MayAnswer(cmd, ans)
                /\ known' = Answered(known, cmd, ans)
                /\ tasks' = [tasks EXCEPT ![i] =
                        IF ShortCircuit(ans)
                        THEN ReturnTool(t1, InstallResult(TRUE, "is already installed", NoDetails, "absent"))
                        ELSE [t1 EXCEPT !.pc = "it_detect"]]
    /\ UNCHANGED <<platform, fileExists, profile, faulted, pmInstalled, pmRuns, check, catalogExt, applied, boot>>

\* line 130: the message of the result, from its parts
NotSupportedParts(t, pm) == <<displayName(t), " installation not supported on ", pm>>

NotSupportedMessage(t, pm) == NotSupportedParts(t, pm)[1] \o NotSupportedParts(t, pm)[2] \o NotSupportedParts(t, pm)[3]

\* lines 131-133: the details of the result
ManualDetails(url) == <<"manual", "Please install manually: " \o url, 0>>

\* mutant: the result carries no details
NoMethodResultBare(t, pm) == InstallResult(FALSE, NotSupportedMessage(t, pm), NoDetails, "absent")

\* lines 127-135: no install method for the detected package manager
NoMethodResult(t, pm) ==
    InstallResult(FALSE, NotSupportedMessage(t, pm),
                  IF manualInstallUrl(t) # "" THEN ManualDetails(manualInstallUrl(t)) ELSE NoDetails,
                  "absent")

\* mutant: a null package manager does not end the call
NoManagerNever(pm) == FALSE

\* line 118: `if (!pm)`
NoManager(pm) == pm.name = "none"

\* lines 119-122
NoManagerResult ==
    InstallResult(FALSE, "No package manager available. Please install a package manager first.", NoDetails, "absent")

\* lines 116-135: package manager detection and method lookup
ITDetect(i) ==
    LET tk == tasks[i] IN
    /\ tk.pc = "it_detect"
    /\ \E onPath \in PossiblePaths :
        LET pm == detectPackageManager(platform, onPath)
            t1 == LoggedProbes(tk, pm.probes, 1, onPath)
        IN  /\ known' = AfterProbes(known, pm.probes, onPath)
            /\ tasks' = [tasks EXCEPT ![i] =
                  IF NoManager(pm)
                  THEN ReturnTool(t1, NoManagerResult)
                  ELSE IF ~HasInstallMethods(tk.tool)
                  THEN ThrowTool(t1)
                  ELSE IF ~HasMethod(tk.tool, pm.name)
                  THEN ReturnTool(t1, NoMethodResult(tk.tool, pm.name))
                  ELSE [t1 EXCEPT !.pc = "it_primary", !.pm = pm.name]]
    /\ UNCHANGED <<platform, fileExists, profile, faulted, pmInstalled, pmRuns, check, catalogExt, applied, boot>>

\* a successful install command may or may not put the verify command on PATH
Landed(kn, t, lands) == IF lands THEN [kn EXCEPT ![commandToCheck(t)] = "yes"] ELSE kn

\* lines 141-148: the primary install command
ITPrimary(i) ==
    LET tk == tasks[i] IN
    /\ tk.pc = "it_primary"
    /\ \E raw \in ExecOutcomes, lands \in BOOLEAN :
        LET packageResult == executeCommand(raw)
            t1 == [Logged(tk, "primary", packageCmd(tk.tool, tk.pm), 0, packageResult.success)
                      EXCEPT !.log[Len(tk.log) + 1].timedOut = (raw.ending = "timeout")]
        IN  /\ raw.stdout = "text"
            /\ lands => packageResult.success
            /\ known' = Landed(known, tk.tool, lands)
            /\ tasks' = [tasks EXCEPT ![i] = AfterPrimary(t1, packageResult)]
    /\ UNCHANGED <<platform, fileExists, profile, faulted, pmInstalled, pmRuns, check, catalogExt, applied, boot>>

\* mutant: the loop has no break, a successful alternative is followed by the next
AfterAltNoBreak(t1, ok) ==
    IF t1.altIdx < Len(alternativeCommands(t1.tool, t1.pm))
    THEN [t1 EXCEPT !.altIdx = t1.altIdx + 1,
                    !.installDetails = IF ok THEN <<"stdout", "alt", t1.altIdx>> ELSE @]
    ELSE IF ok \/ t1.installDetails # NoDetails
    THEN [t1 EXCEPT !.installDetails = IF ok THEN <<"stdout", "alt", t1.altIdx>> ELSE @,
                    !.postIdx = 1, !.pc = AfterInstall(t1.tool, t1.pm)]
    ELSE InstallFailed(t1)

\* lines 152-156: a successful alternative ends the loop, a failed one moves on
AfterAlt(t1, ok) ==
    IF ok
    THEN [t1 EXCEPT !.installDetails = <<"stdout", "alt", t1.altIdx>>,
                    !.postIdx = 1, !.pc = AfterInstall(t1.tool, t1.pm)]
    ELSE IF t1.altIdx < Len(alternativeCommands(t1.tool, t1.pm))
    THEN [t1 EXCEPT !.altIdx = t1.altIdx + 1]
    ELSE InstallFailed(t1)

\* lines 149-157: one alternative command
ITAlt(i) ==
    LET tk == tasks[i]
        alts == alternativeCommands(tk.tool, tk.pm)
    IN
    /\ tk.pc = "it_alt"
    /\ \E ok \in BOOLEAN, lands \in BOOLEAN :
        LET t1 == Logged(tk, "alt", alts[tk.altIdx], tk.altIdx, ok)
        IN  /\ lands => ok
            /\ known' = Landed(known, tk.tool, lands)
            /\ tasks' = [tasks EXCEPT ![i] = AfterAlt(t1, ok)]
    /\ UNCHANGED <<platform, fileExists, profile, faulted, pmInstalled, pmRuns, check, catalogExt, applied, boot>>

\* mutant: a failing post-install step ends the call with a failure
ITPostAborting(i) ==
    LET tk == tasks[i]
        steps == postInstallSteps(tk.tool, tk.pm)
    IN
    /\ tk.pc = "it_post"
    /\ \E ok \in BOOLEAN :
        LET t1 == Logged(tk, "post", steps[tk.postIdx], tk.postIdx, ok)
        IN  tasks' = [tasks EXCEPT ![i] =
                  IF ~ok
                  THEN ReturnTool(t1, InstallResult(FALSE, "Failed to install", <<"error", "post", tk.postIdx>>, "absent"))
                  ELSE IF tk.postIdx < Len(steps)
                  THEN [t1 EXCEPT !.postIdx = tk.postIdx + 1]
                  ELSE [t1 EXCEPT !.pc = AfterPost(tk.tool)]]
    /\ UNCHANGED <<platform, known, fileExists, profile, faulted, pmInstalled, pmRuns, check, catalogExt, applied, boot>>

\* lines 168-173: one post-install step; its outcome is not looked at
ITPost(i) ==
    LET tk == tasks[i]
        steps == postInstallSteps(tk.tool, tk.pm)
    IN
    /\ tk.pc = "it_post"
    /\ \E ok \in BOOLEAN :
        LET t1 == Logged(tk, "post", steps[tk.postIdx], tk.postIdx, ok)
        IN  tasks' = [tasks EXCEPT ![i] =
                  IF tk.postIdx < Len(steps)
                  THEN [t1 EXCEPT !.postIdx = tk.postIdx + 1]
                  ELSE [t1 EXCEPT !.pc = AfterPost(tk.tool)]]
    /\ UNCHANGED <<platform, known, fileExists, profile, faulted, pmInstalled, pmRuns, check, catalogExt, applied, boot>>

\* mutant: only the probe decides, the restart flag is ignored
VerifiedOnly(verified, needsRestart) == verified

\* line 184: the condition of the success result
VerifiedOrRestart(verified, needsRestart) == verified \/ needsRestart

\* lines 182-198: the final existence probe and the result
ITVerify(i) ==
    LET tk == tasks[i] IN
    /\ tk.pc = "it_verify"
    /\ \E raw \in ExecOutcomes :
        LET cmd == commandToCheck(tk.tool)
            verified == commandExists(raw)
            t1 == Logged(tk, "verify", cmd, 0, verified)
        IN  /\ MayAnswer(cmd, verified)
            /\ known' = Answered(known, cmd, verified)
            /\ tasks' = [tasks EXCEPT ![i] =
                  IF VerifiedOrRestart(verified, tk.needsRestart)
                  THEN ReturnTool(t1, InstallResult(TRUE, "installed successfully", tk.installDetails,
                                                    IF tk.needsRestart THEN "true" ELSE "false"))
                  ELSE ReturnTool(t1, InstallResult(FALSE, "installation completed but verification failed",
                                                    <<"hint", "The tool may require a shell restart to be available", 0>>, "true"))]
    /\ UNCHANGED <<platform, fileExists, profile, faulted, pmInstalled, pmRuns, check, catalogExt, applied, boot>>

----------------------------------------------------------------------------
(* configureShellEnvironment, unified-installer.ts 210-251 *)

\* line 240: the marker test on what was read
AlreadyConfigured(existing, t) == Includes(existing, Marker(t))

\* mutant: a restart is asked for whenever the Configurator was called
ConfiguredAlwaysRestart(tk, wrote) ==
    [Logged(tk, "configured", tk.tool, 0, wrote) EXCEPT !.needsRestart = TRUE, !.pc = "it_verify"]

\* the Configurator returns `wrote` to installTool (lines 178-179)
Configured(tk, wrote) ==
    [Logged(tk, "configured", tk.tool, 0, wrote) EXCEPT !.needsRestart = wrote, !.pc = "it_verify"]

\* lines 230-242: read the profile (any read error counts as empty) and test the marker
ITCfgRead(i) ==
    LET tk == tasks[i] IN
    /\ tk.pc = "it_cfg_read"
    /\ \E readOk \in BOOLEAN :
        LET existing == IF readOk THEN profile ELSE <<>>
            t1 == Logged(tk, "read", "", 0, readOk)
        IN  /\ readOk => fileExists
            /\ faulted' = (faulted \/ (fileExists /\ ~readOk))
            /\ tasks' = [tasks EXCEPT ![i] =
                  IF configContent(tk.tool) = <<>> \/ AlreadyConfigured(existing, tk.tool)
                  THEN Configured(t1, FALSE)
                  ELSE [t1 EXCEPT !.pc = "it_cfg_append"]]
    /\ UNCHANGED <<platform, known, fileExists, profile, pmInstalled, pmRuns, check, catalogExt, applied, boot>>

\* what fs.appendFile leaves in the file
Appended(content, block) == content \o block

\* lines 244-250: append the block; an append error is logged and gives false
ITCfgAppend(i) ==
    LET tk == tasks[i] IN
    /\ tk.pc = "it_cfg_append"
    /\ \E ok \in BOOLEAN :
        LET t1 == Logged(tk, "append", "", 0, ok)
        IN  /\ profile' = IF ok THEN Appended(profile, configContent(tk.tool)) ELSE profile
            /\ fileExists' = (fileExists \/ ok)
            /\ faulted' = (faulted \/ ~ok)
            /\ tasks' = [tasks EXCEPT ![i] = Configured(t1, ok)]
    /\ UNCHANGED <<platform, known, pmInstalled, pmRuns, check, catalogExt, applied, boot>>

----------------------------------------------------------------------------
(* installMultipleTools, unified-installer.ts 256-266 *)

\* mutant: the call is not awaited, the loop goes on while it is in progress
NotAwaited(tk) == TRUE

\* line 262: the loop resumes only when the awaited installTool has settled
Awaited(tk) == tk.pc = "mt_loop"

\* mutant: an entry already in the mapping is kept
WithResultKeepFirst(results, name, r) ==
    [n \in DOMAIN results \cup {name} |-> IF n \in DOMAIN results THEN results[n] ELSE r]

\* line 263: results[toolName] = <the settled result>
WithResult(results, name, r) ==
    [n \in DOMAIN results \cup {name} |-> IF n = name THEN r ELSE results[n]]

\* lines 261-265: store the settled result, then start the next tool or return
MTLoop(i) ==
    LET tk == tasks[i]
        t1 == IF tk.k >= 1
              THEN [tk EXCEPT !.results = WithResult(tk.results, tk.names[tk.k], tk.ret)]
              ELSE tk
    IN
    /\ tk.op = "installMultipleTools"
    /\ tk.status = "running"
    /\ Awaited(tk)
    /\ tasks' = [tasks EXCEPT ![i] =
          IF tk.k < Len(tk.names)
          THEN EnterTool(t1, tk.names[tk.k + 1], tk.k + 1)
          ELSE [t1 EXCEPT !.pc = "done", !.status = "returned"]]
    /\ UNCHANGED <<platform, known, fileExists, profile, faulted, pmInstalled, pmRuns, check, catalogExt, applied, boot>>

----------------------------------------------------------------------------
(* installNvm 271-309 and installAndroidStudio 358-439 *)

\* the text searched for and the block written, by operation
Needle(op) == IF op \in {"installNvm", "installNodeViaTarget"} THEN "NVM_DIR" ELSE "ANDROID_HOME"

Block(op) == IF op \in {"installNvm", "installNodeViaTarget"} THEN nvmConfig ELSE androidConfig

Succeeded(tk) ==
    IF tk.op \in {"installNvm", "installNodeViaTarget"}
    THEN InstallResult(TRUE, "nvm installed successfully", tk.installDetails, "true")
    ELSE InstallResult(TRUE, "Android Studio installed successfully", tk.installDetails, "true")

\* installNodeViaTarget 328-333: installNvm has returned nvmResult
AfterNvm(tk, nvmResult) ==
    IF ~nvmResult.success THEN EnterTool(tk, "nodejs", 1) ELSE [tk EXCEPT !.pc = "nv_exec"]

\* installNvm or installAndroidStudio returns r: to installNodeViaTarget when
\* it made the call, to the outside otherwise
ReturnSp(tk, r) ==
    IF tk.op = "installNodeViaTarget"
    THEN AfterNvm(Logged(tk, "nvmreturn", "installNvm", 0, r.success), r)
    ELSE Finish(tk, r)

\* installNvm 272-278
NvmProbe(i) ==
    LET tk == tasks[i] IN
    /\ tk.pc = "nvm_probe"
    /\ \E ans \in BOOLEAN :
        LET t1 == Logged(tk, "which", "nvm", 0, ans)
        IN  /\ MayAnswer("nvm", ans)
            /\ known' = Answered(known, "nvm", ans)
            /\ tasks' = [tasks EXCEPT ![i] =
                  IF ans
                  THEN ReturnSp(t1, InstallResult(TRUE, "nvm is already installed", NoDetails, "absent"))
                  ELSE [t1 EXCEPT !.pc = "nvm_exec"]]
    /\ UNCHANGED <<platform, fileExists, profile, faulted, pmInstalled, pmRuns, check, catalogExt, applied, boot>>

\* installNvm 280-283: the install script; its success flag is not looked at
NvmExec(i) ==
    LET tk == tasks[i] IN
    /\ tk.pc = "nvm_exec"
    /\ \E ok \in BOOLEAN :
        tasks' = [tasks EXCEPT ![i] =
            [Logged(tk, "script", "curl -o- https://raw.githubusercontent.com/nvm-sh/nvm/v0.39.7/install.sh | bash", 0, ok)
                EXCEPT !.installDetails = <<"stdout", "script", 0>>, !.pc = "sp_read"]]
    /\ UNCHANGED <<platform, known, fileExists, profile, faulted, pmInstalled, pmRuns, check, catalogExt, applied, boot>>

\* 294-296 and 420-422: read the profile and search it
SpRead(i) ==
    LET tk == tasks[i] IN
    /\ tk.pc = "sp_read"
    /\ \E readOk \in BOOLEAN :
        LET t1 == Logged(tk, "read", "", 0, readOk)
        IN  /\ readOk => fileExists
            /\ faulted' = (faulted \/ (fileExists /\ ~readOk))
            /\ tasks' = [tasks EXCEPT ![i] =
                  IF ~readOk THEN [t1 EXCEPT !.pc = "sp_write"]
                  ELSE IF ~Includes(profile, Needle(tk.op)) THEN [t1 EXCEPT !.pc = "sp_append"]
                  ELSE ReturnSp(t1, Succeeded(tk))]
    /\ UNCHANGED <<platform, known, fileExists, profile, pmInstalled, pmRuns, check, catalogExt, applied, boot>>

\* 297 and 423: append the block; an error here is caught by the same catch
SpAppend(i) ==
    LET tk == tasks[i] IN
    /\ tk.pc = "sp_append"
    /\ \E ok \in BOOLEAN :
        LET t1 == Logged(tk, "append", "", 0, ok)
        IN  /\ profile' = IF ok THEN Appended(profile, Block(tk.op)) ELSE profile
            /\ fileExists' = (fileExists \/ ok)
            /\ faulted' = (faulted \/ ~ok)
            /\ tasks' = [tasks EXCEPT ![i] =
                  IF ok THEN ReturnSp(t1, Succeeded(tk)) ELSE [t1 EXCEPT !.pc = "sp_write"]]
    /\ UNCHANGED <<platform, known, pmInstalled, pmRuns, check, catalogExt, applied, boot>>

\* what fs.writeFile leaves in the file
Written(content, block) == block

\* 299-301 and 425-427: the catch block writes the file; an error here escapes
SpWrite(i) ==
    LET tk == tasks[i] IN
    /\ tk.pc = "sp_write"
    /\ \E ok \in BOOLEAN :
        LET t1 == Logged(tk, "write", "", 0, ok)
        IN  /\ profile' = IF ok THEN Written(profile, Block(tk.op)) ELSE profile
            /\ fileExists' = (fileExists \/ ok)
            /\ faulted' = (faulted \/ ~ok)
            /\ tasks' = [tasks EXCEPT ![i] =
                  IF ok THEN ReturnSp(t1, Succeeded(tk))
                  ELSE [Logged(t1, "throw", tk.op, 0, FALSE) EXCEPT !.pc = "done", !.status = "thrown"]]
    /\ UNCHANGED <<platform, known, pmInstalled, pmRuns, check, catalogExt, applied, boot>>

\* installAndroidStudio 359-367
AsDetect(i) ==
    LET tk == tasks[i] IN
    /\ tk.pc = "as_detect"
    /\ \E onPath \in PossiblePaths :
        LET pm == detectPackageManager(platform, onPath)
            t1 == LoggedProbes(tk, pm.probes, 1, onPath)
        IN  /\ known' = AfterProbes(known, pm.probes, onPath)
            /\ tasks' = [tasks EXCEPT ![i] =
                  IF pm.name = "none"
                  THEN Finish(t1, InstallResult(FALSE, "No package manager available", NoDetails, "absent"))
                  ELSE [t1 EXCEPT !.pm = pm.name, !.pc = "as_java"]]
    /\ UNCHANGED <<platform, fileExists, profile, faulted, pmInstalled, pmRuns, check, catalogExt, applied, boot>>

\* 369-380: the Java prerequisite, through installTool('java')
AsJava(i) ==
    LET tk == tasks[i] IN
    /\ tk.pc = "as_java"
    /\ \E ans \in BOOLEAN :
        LET t1 == Logged(tk, "which", "java", 0, ans)
        IN  /\ MayAnswer("java", ans)
            /\ known' = Answered(known, "java", ans)
            /\ tasks' = [tasks EXCEPT ![i] =
                  IF ans THEN [t1 EXCEPT !.pc = AfterJava] ELSE EnterTool(t1, "java", 1)]
    /\ UNCHANGED <<platform, fileExists, profile, faulted, pmInstalled, pmRuns, check, catalogExt, applied, boot>>

\* 386-397: on Linux the install goes through snap
AsSnap(i) ==
    LET tk == tasks[i] IN
    /\ tk.pc = "as_snap"
    /\ \E ans \in BOOLEAN :
        LET t1 == Logged(tk, "which", "snap", 0, ans)
        IN  /\ MayAnswer("snap", ans)
            /\ known' = Answered(known, "snap", ans)
            /\ tasks' = [tasks EXCEPT ![i] =
                  IF ans THEN [t1 EXCEPT !.pc = "as_exec"]
                  ELSE Finish(t1, InstallResult(FALSE, "Android Studio installation requires manual setup on this Linux distribution",
                                                <<"manual", "https://developer.android.com/studio", 0>>, "absent"))]
    /\ UNCHANGED <<platform, fileExists, profile, faulted, pmInstalled, pmRuns, check, catalogExt, applied, boot>>

\* 383-390: the IDE install command
installCmd(os, pm) ==
    IF os = "darwin" THEN ManagerInstallCmd(pm) \o " --cask android-studio"
    ELSE "sudo snap install android-studio --classic"

\* 400-408
AsExec(i) ==
    LET tk == tasks[i] IN
    /\ tk.pc = "as_exec"
    /\ \E ok \in BOOLEAN :
        LET t1 == Logged(tk, "ide", installCmd(detectOS(platform), tk.pm), 0, ok)
        IN  tasks' = [tasks EXCEPT ![i] =
                IF ok THEN [t1 EXCEPT !.installDetails = <<"stdout", "ide", 0>>, !.pc = "sp_read"]
                ELSE Finish(t1, InstallResult(FALSE, "Failed to install Android Studio", <<"error", "ide", 0>>, "absent"))]
    /\ UNCHANGED <<platform, known, fileExists, profile, faulted, pmInstalled, pmRuns, check, catalogExt, applied, boot>>

----------------------------------------------------------------------------
(* installNodeViaTarget, unified-installer.ts 314-353 *)

\* the version argument (index.ts passes 'lts' when none is given)
NodeVersions == {"lts", "20"}

nvmInstallCmd(version) ==
    "bash -c \"source $HOME/.nvm/nvm.sh && nvm install " \o version \o " && nvm use " \o version \o "\""

\* lines 316-322: Node.js already there
NvNode(i) ==
    LET tk == tasks[i] IN
    /\ tk.pc = "nv_node"
    /\ \E ans \in BOOLEAN :
        LET t1 == Logged(tk, "which", "node", 0, ans)
        IN  /\ MayAnswer("node", ans)
            /\ known' = Answered(known, "node", ans)
            /\ tasks' = [tasks EXCEPT ![i] =
                  IF ans
                  THEN Finish(t1, InstallResult(TRUE, "Node.js is already installed", NoDetails, "absent"))
                  ELSE [t1 EXCEPT !.pc = "nv_nvm"]]
    /\ UNCHANGED <<platform, fileExists, profile, faulted, pmInstalled, pmRuns, check, catalogExt, applied, boot>>

\* lines 324-328: without nvm, installNvm() is called first
NvNvm(i) ==
    LET tk == tasks[i] IN
    /\ tk.pc = "nv_nvm"
    /\ \E ans \in BOOLEAN :
        LET t1 == Logged(tk, "which", "nvm", 0, ans)
        IN  /\ MayAnswer("nvm", ans)
            /\ known' = Answered(known, "nvm", ans)
            /\ tasks' = [tasks EXCEPT ![i] =
                  IF ans THEN [t1 EXCEPT !.pc = "nv_exec"] ELSE [t1 EXCEPT !.pc = "nvm_probe"]]
    /\ UNCHANGED <<platform, fileExists, profile, faulted, pmInstalled, pmRuns, check, catalogExt, applied, boot>>

\* lines 335-338 and 340 (left operand): nvm install; success ends the call
NvExec(i) ==
    LET tk == tasks[i] IN
    /\ tk.pc = "nv_exec"
    /\ \E ok \in BOOLEAN, lands \in BOOLEAN :
        LET t1 == Logged(tk, "nvminstall", nvmInstallCmd(tk.names[1]), 0, ok)
        IN  /\ lands => ok
            /\ known' = Landed(known, "nodejs", lands)
            /\ tasks' = [tasks EXCEPT ![i] =
                  IF ok
                  THEN Finish(t1, InstallResult(TRUE, "Node.js installed successfully via nvm", <<"stdout", "nvminstall", 0>>, "absent"))
                  ELSE [t1 EXCEPT !.pc = "nv_verify"]]
    /\ UNCHANGED <<platform, fileExists, profile, faulted, pmInstalled, pmRuns, check, catalogExt, applied, boot>>

\* lines 340-352: after a failed nvm install, the existence probe decides
NvVerify(i) ==
    LET tk == tasks[i] IN
    /\ tk.pc = "nv_verify"
    /\ \E ans \in BOOLEAN :
        LET t1 == Logged(tk, "verify", "node", 0, ans)
        IN  /\ MayAnswer("node", ans)
            /\ known' = Answered(known, "node", ans)
            /\ tasks' = [tasks EXCEPT ![i] =
                  IF ans
                  THEN Finish(t1, InstallResult(TRUE, "Node.js installed successfully via nvm", <<"stdout", "nvminstall", 0>>, "absent"))
                  ELSE Finish(t1, InstallResult(FALSE, "Failed to install Node.js via nvm", <<"error", "nvminstall", 0>>, "absent"))]
    /\ UNCHANGED <<platform, fileExists, profile, faulted, pmInstalled, pmRuns, check, catalogExt, applied, boot>>

----------------------------------------------------------------------------
(* Environment validator, environment-validator.ts 1-162 *)

\* tools probed concurrently by checkAllTools (a prefix of the catalog)
MaxCheck == 3

\* names in the input of isSystemReady
MaxRequired == 2

\* toolConfig.name: the catalog key for a catalog entry; for a value inherited
\* from Object.prototype, the name property of that function (none for __proto__)
configName(t) ==
    CASE t \in CatalogNames -> t
      [] t = "constructor"  -> "Object"
      [] t = "__proto__"    -> "undefined"
      [] OTHER              -> t

\* toolConfig.versionFlag (an absent flag takes the default of getCommandVersion)
versionFlag(t) ==
    CASE t = "java" -> "-version"
      [] t = "go"   -> "version"
      [] OTHER      -> "--version"

\* what `version || undefined` can be for an installed tool
VersionOutcomes == {"absent", "version"}

ToolStatus(n, d, i, v) == [name |-> n, displayName |-> d, installed |-> i, version |-> v]

NoStatus == ToolStatus("", "", FALSE, "absent")

\* lines 42-48: a name that resolves to nothing is reported not installed, unprobed
UnknownStatus(t) == ToolStatus(t, t, FALSE, "absent")

NoPackageManager == [name |-> "none", available |-> FALSE]

\* the packageManager field of a status when detectPackageManager returned null
NullPackageManager == [name |-> "null", available |-> FALSE]

NoReady == [ready |-> FALSE, missing |-> <<>>, installed |-> <<>>]

NoCheck ==
    [op |-> "none", phase |-> "idle", names |-> <<>>, pc |-> <<>>, st |-> <<>>,
     arrival |-> <<>>, pm |-> NoPackageManager, tools |-> <<>>, ready |-> NoReady,
     recs |-> <<>>, ran |-> {}]

\* toolNames.map((name) => checkToolInstalled(name)): every check starts at
\* once; the checks of unresolved names are settled from the start
MappedChecks(c, names) ==
    [c EXCEPT !.names = names, !.phase = "probe",
              !.pc = [j \in DOMAIN names |-> IF getToolConfig(names[j]) THEN "which" ELSE "settled"],
              !.st = [j \in DOMAIN names |-> IF getToolConfig(names[j]) THEN NoStatus ELSE UnknownStatus(names[j])],
              !.arrival = SelectSeq([j \in DOMAIN names |-> j], LAMBDA j : ~getToolConfig(names[j]))]

\* the promise of position j settles with status s
Settled(c, j, s) == [c EXCEPT !.pc[j] = "settled", !.st[j] = s, !.arrival = Append(@, j)]

\* mutant: the statuses are collected in the order in which the checks settle
GatheredAsSettled(c) == [j \in DOMAIN c.arrival |-> c.st[c.arrival[j]]]

\* line 67, Promise.all: the statuses in the order of the input
Gathered(c) == [j \in DOMAIN c.names |-> c.st[j]]

\* lines 111-126 of isSystemReady: one pass over the statuses
isSystemReady(statuses) ==
    LET installed == SelectSeq(statuses, LAMBDA s : s.installed)
        missing == SelectSeq(statuses, LAMBDA s : ~s.installed)
        NameOf(s) == [j \in DOMAIN s |-> s[j].name]
    IN  [ready |-> Len(missing) = 0, missing |-> NameOf(missing), installed |-> NameOf(installed)]

\* lines 87-98: the SystemStatus record
SystemStatus(c) ==
    [os |-> detectOS(platform), platform |-> platform,
     packageManager |-> IF c.pm.name = "none" THEN NullPackageManager ELSE c.pm,
     tools |-> c.tools]

InstallPMAdvice == "Install a package manager to easily manage development tools"

ToolAdvice(n) ==
    CASE n = "git"    -> "Install Git for version control"
      [] n = "python" -> "Install Python for Python development"
      [] n = "nodejs" -> "Install Node.js for JavaScript/TypeScript development"
      [] n = "docker" -> "Install Docker for containerized development"
      [] n = "java"   -> "Install Java for Java/Android development"

\* mutant: the advice speaks of tools only
getRecommendationsToolsOnly(status) ==
    LET notInstalled == {status.tools[j].name : j \in {k \in DOMAIN status.tools : ~status.tools[k].installed}}
    IN  SelectSeq(<<"git", "python", "nodejs", "docker", "java">>, LAMBDA n : n \in notInstalled)

\* mutant: the advice follows the order of status.tools
getRecommendationsInListOrder(status) ==
    LET missing == SelectSeq(status.tools,
                             LAMBDA t : ~t.installed /\ t.name \in {"git", "python", "nodejs", "docker", "java"})
    IN  (IF status.packageManager = NullPackageManager THEN <<InstallPMAdvice>> ELSE <<>>)
        \o [j \in DOMAIN missing |-> ToolAdvice(missing[j].name)]

\* lines 132-162: getRecommendations, as the sequence of advice pushed
getRecommendations(status) ==
    LET notInstalled == {status.tools[j].name : j \in {k \in DOMAIN status.tools : ~status.tools[k].installed}}
        advised == SelectSeq(<<"git", "python", "nodejs", "docker", "java">>, LAMBDA n : n \in notInstalled)
    IN  (IF status.packageManager = NullPackageManager THEN <<InstallPMAdvice>> ELSE <<>>)
        \o [j \in DOMAIN advised |-> ToolAdvice(advised[j])]

\* the catalog names checkAllTools probes
CheckedNames == SubSeq(getAllToolNames, 1, MaxCheck)

\* names a caller may require
RequiredNames == {"git", "python", "constructor", "no-such-tool"}

RequiredInputs == SeqsUpTo(RequiredNames, MaxRequired)

\* checkAllTools, lines 74-77
StartCheckAllTools ==
    /\ check.phase = "idle"
    /\ check' = MappedChecks([check EXCEPT !.op = "checkAllTools"], CheckedNames)
    /\ UNCHANGED <<platform, known, fileExists, profile, tasks, faulted, pmInstalled, pmRuns, catalogExt, applied, boot>>

\* isSystemReady, lines 104-109
StartIsSystemReady ==
    /\ check.phase = "idle"
    /\ \E names \in RequiredInputs :
        check' = MappedChecks([check EXCEPT !.op = "isSystemReady"], names)
    /\ UNCHANGED <<platform, known, fileExists, profile, tasks, faulted, pmInstalled, pmRuns, catalogExt, applied, boot>>

\* getSystemStatus, lines 82-83
StartGetSystemStatus ==
    /\ check.phase = "idle"
    /\ check' = [check EXCEPT !.op = "getSystemStatus", !.phase = "detect"]
    /\ UNCHANGED <<platform, known, fileExists, profile, tasks, faulted, pmInstalled, pmRuns, catalogExt, applied, boot>>

\* getSystemStatus, lines 84-85: detectPackageManager has returned, checkAllTools starts
VDetect ==
    /\ check.phase = "detect"
    /\ \E onPath \in PossiblePaths :
        LET pm == detectPackageManager(platform, onPath)
        IN  /\ known' = AfterProbes(known, pm.probes, onPath)
            /\ check' = MappedChecks(
                  [check EXCEPT !.pm = [name |-> pm.name, available |-> pm.available],
                                !.ran = @ \cup {<<"which", pm.probes[j]>> : j \in DOMAIN pm.probes}],
                  CheckedNames)
    /\ UNCHANGED <<platform, fileExists, profile, tasks, faulted, pmInstalled, pmRuns, catalogExt, applied, boot>>

\* checkToolInstalled, lines 50-51 and 55-60: the existence probe of position j returns
CkWhich(j) ==
    /\ check.phase = "probe"
    /\ j \in DOMAIN check.pc
    /\ check.pc[j] = "which"
    /\ \E ans \in BOOLEAN :
        LET t == check.names[j]
            cmd == commandToCheck(t)
            c1 == [check EXCEPT !.ran = @ \cup {<<"which", cmd>>}]
        IN  /\ MayAnswer(cmd, ans)
            /\ known' = Answered(known, cmd, ans)
            /\ check' = IF ans
                        THEN [c1 EXCEPT !.pc[j] = "version"]
                        ELSE Settled(c1, j, ToolStatus(configName(t), displayName(t), FALSE, "absent"))
    /\ UNCHANGED <<platform, fileExists, profile, tasks, faulted, pmInstalled, pmRuns, catalogExt, applied, boot>>

\* checkToolInstalled, lines 52-60: the version probe of position j returns
CkVersion(j) ==
    /\ check.phase = "probe"
    /\ j \in DOMAIN check.pc
    /\ check.pc[j] = "version"
    /\ \E v \in VersionOutcomes :
        LET t == check.names[j]
            c1 == [check EXCEPT !.ran = @ \cup {<<"version", commandToCheck(t) \o " " \o versionFlag(t)>>}]
        IN  check' = Settled(c1, j, ToolStatus(configName(t), displayName(t), TRUE, v))
    /\ UNCHANGED <<platform, known, fileExists, profile, tasks, faulted, pmInstalled, pmRuns, catalogExt, applied, boot>>

\* Promise.all resolves once every check has settled; the caller goes on
CkGather ==
    /\ check.phase = "probe"
    /\ \A j \in DOMAIN check.pc : check.pc[j] = "settled"
    /\ check' = [check EXCEPT !.tools = Gathered(check), !.phase = "done",
                              !.ready = IF check.op = "isSystemReady"
                                        THEN isSystemReady(Gathered(check)) ELSE @]
    /\ UNCHANGED <<platform, known, fileExists, profile, tasks, faulted, pmInstalled, pmRuns, catalogExt, applied, boot>>

\* formatEnvironmentReport: getRecommendations on the status returned
VRecommend ==
    /\ check.op = "getSystemStatus"
    /\ check.phase = "done"
    /\ check' = [check EXCEPT !.recs = getRecommendations(SystemStatus(check)), !.phase = "reported"]
    /\ UNCHANGED <<platform, known, fileExists, profile, tasks, faulted, pmInstalled, pmRuns, catalogExt, applied, boot>>

----------------------------------------------------------------------------
(* Callers: the CLI and the protocol dispatcher start one operation *)

Started(tk, op, names) == [tk EXCEPT !.op = op, !.names = names, !.status = "running"]

StartInstallTool(i) ==
    /\ tasks[i].pc = "idle"
    /\ \E name \in ToolNames :
        tasks' = [tasks EXCEPT ![i] = EnterTool(Started(@, "installTool", <<name>>), name, 1)]
    /\ UNCHANGED <<platform, known, fileExists, profile, faulted, pmInstalled, pmRuns, check, catalogExt, applied, boot>>

StartInstallMultipleTools(i) ==
    /\ tasks[i].pc = "idle"
    /\ \E names \in BatchInputs :
        tasks' = [tasks EXCEPT ![i] = [Started(@, "installMultipleTools", names) EXCEPT !.pc = "mt_loop"]]
    /\ UNCHANGED <<platform, known, fileExists, profile, faulted, pmInstalled, pmRuns, check, catalogExt, applied, boot>>

StartInstallNvm(i) ==
    /\ tasks[i].pc = "idle"
    /\ tasks' = [tasks EXCEPT ![i] = [Started(@, "installNvm", <<>>) EXCEPT !.pc = "nvm_probe"]]
    /\ UNCHANGED <<platform, known, fileExists, profile, faulted, pmInstalled, pmRuns, check, catalogExt, applied, boot>>

StartInstallNodeViaTarget(i) ==
    /\ tasks[i].pc = "idle"
    /\ \E version \in NodeVersions :
        tasks' = [tasks EXCEPT ![i] = [Started(@, "installNodeViaTarget", <<version>>) EXCEPT !.pc = "nv_node"]]
    /\ UNCHANGED <<platform, known, fileExists, profile, faulted, pmInstalled, pmRuns, check, catalogExt, applied, boot>>

StartInstallAndroidStudio(i) ==
    /\ tasks[i].pc = "idle"
    /\ tasks' = [tasks EXCEPT ![i] = [Started(@, "installAndroidStudio", <<>>) EXCEPT !.pc = "as_detect"]]
    /\ UNCHANGED <<platform, known, fileExists, profile, faulted, pmInstalled, pmRuns, check, catalogExt, applied, boot>>

----------------------------------------------------------------------------
(* Specifications *)

Init ==
    /\ platform \in Platforms
    /\ known = [c \in AllCommands |-> "unprobed"]
    /\ fileExists \in BOOLEAN
    /\ profile \in InitialProfiles
    /\ ~fileExists => profile = <<>>
    /\ tasks = [i \in {1} |-> IdleTask]
    /\ faulted = FALSE
    /\ pmInstalled = {}
    /\ pmRuns = <<>>
    /\ check = NoCheck
    /\ catalogExt = "none"
    /\ applied = <<>>
    /\ boot = NoBoot

Next ==
    \/ \E i \in DOMAIN tasks : StartInstallTool(i)
    \/ \E i \in DOMAIN tasks : StartInstallMultipleTools(i)
    \/ \E i \in DOMAIN tasks : StartInstallNvm(i)
    \/ \E i \in DOMAIN tasks : StartInstallAndroidStudio(i)
    \/ \E i \in DOMAIN tasks : ITLookup(i)
    \/ \E i \in DOMAIN tasks : ITDetect(i)
    \/ \E i \in DOMAIN tasks : ITPrimary(i)
    \/ \E i \in DOMAIN tasks : ITAlt(i)
    \/ \E i \in DOMAIN tasks : ITPost(i)
    \/ \E i \in DOMAIN tasks : ITCfgRead(i)
    \/ \E i \in DOMAIN tasks : ITCfgAppend(i)
    \/ \E i \in DOMAIN tasks : ITVerify(i)
    \/ \E i \in DOMAIN tasks : MTLoop(i)
    \/ \E i \in DOMAIN tasks : NvmProbe(i)
    \/ \E i \in DOMAIN tasks : NvmExec(i)
    \/ \E i \in DOMAIN tasks : SpRead(i)
    \/ \E i \in DOMAIN tasks : SpAppend(i)
    \/ \E i \in DOMAIN tasks : SpWrite(i)
    \/ \E i \in DOMAIN tasks : AsDetect(i)
    \/ \E i \in DOMAIN tasks : AsJava(i)
    \/ \E i \in DOMAIN tasks : AsSnap(i)
    \/ \E i \in DOMAIN tasks : AsExec(i)
    \/ \E i \in DOMAIN tasks : StartInstallNodeViaTarget(i)
    \/ \E i \in DOMAIN tasks : NvNode(i)
    \/ \E i \in DOMAIN tasks : NvNvm(i)
    \/ \E i \in DOMAIN tasks : NvExec(i)
    \/ \E i \in DOMAIN tasks : NvVerify(i)

Spec == Init /\ [][Next]_vars

\* detectPackageManager applied repeatedly on a host whose PATH does not change
InitPM ==
    /\ platform \in Platforms
    /\ pmInstalled \in SUBSET PMCommands
    /\ pmRuns = <<>>
    /\ check = NoCheck
    /\ catalogExt = "none"
    /\ applied = <<>>
    /\ boot = NoBoot
    /\ known = [c \in AllCommands |-> "unprobed"]
    /\ fileExists = FALSE
    /\ profile = <<>>
    /\ tasks = [i \in {} |-> IdleTask]
    /\ faulted = FALSE

DetectCall ==
    /\ Len(pmRuns) < MaxDetect
    /\ pmRuns' = Append(pmRuns, detectPackageManager(platform, pmInstalled))
    /\ UNCHANGED <<platform, known, fileExists, profile, tasks, faulted, pmInstalled, check, catalogExt, applied, boot>>

NextPM == DetectCall

SpecPM == InitPM /\ [][NextPM]_vars

----------------------------------------------------------------------------
(* Concurrent requests: the dispatcher's handler is async and holds no lock, *)
(* so a second install request starts while the first awaits a command      *)

\* requests in flight at the same time
MaxRequests == 2

\* the dispatcher answers at once on a platform that is neither macOS nor Linux
isSupported(p) == p \in {"darwin", "linux"}

\* tool names of the concurrent install requests
RequestNames == {"java", "git"}

\* case 'install_tool': one request calls installTool(name)
StartRequest(i) ==
    /\ tasks[i].pc = "idle"
    /\ isSupported(platform)
    /\ \E name \in RequestNames :
        tasks' = [tasks EXCEPT ![i] = EnterTool(Started(@, "installTool", <<name>>), name, 1)]
    /\ UNCHANGED <<platform, known, fileExists, profile, faulted, pmInstalled, pmRuns, check, catalogExt, applied, boot>>

InitCC ==
    /\ platform \in {p \in Platforms : isSupported(p)}
    /\ known = [c \in AllCommands |-> "unprobed"]
    /\ fileExists \in BOOLEAN
    /\ profile \in InitialProfiles
    /\ ~fileExists => profile = <<>>
    /\ tasks = [i \in 1..MaxRequests |-> IdleTask]
    /\ faulted = FALSE
    /\ pmInstalled = {}
    /\ pmRuns = <<>>
    /\ check = NoCheck
    /\ catalogExt = "none"
    /\ applied = <<>>
    /\ boot = NoBoot

NextCC ==
    \/ \E i \in DOMAIN tasks : StartRequest(i)
    \/ \E i \in DOMAIN tasks : ITLookup(i)
    \/ \E i \in DOMAIN tasks : ITDetect(i)
    \/ \E i \in DOMAIN tasks : ITPrimary(i)
    \/ \E i \in DOMAIN tasks : ITPost(i)
    \/ \E i \in DOMAIN tasks : ITCfgRead(i)
    \/ \E i \in DOMAIN tasks : ITCfgAppend(i)
    \/ \E i \in DOMAIN tasks : ITVerify(i)

SpecCC == InitCC /\ [][NextCC]_vars

----------------------------------------------------------------------------
(* The validator's operations on one host *)

InitV ==
    /\ platform \in Platforms
    /\ known = [c \in AllCommands |-> "unprobed"]
    /\ fileExists = FALSE
    /\ profile = <<>>
    /\ tasks = [i \in {} |-> IdleTask]
    /\ faulted = FALSE
    /\ pmInstalled = {}
    /\ pmRuns = <<>>
    /\ check = NoCheck
    /\ catalogExt = "none"
    /\ applied = <<>>
    /\ boot = NoBoot

NextV ==
    \/ StartCheckAllTools
    \/ StartIsSystemReady
    \/ StartGetSystemStatus
    \/ VDetect
    \/ \E j \in 1..MaxCheck : CkWhich(j)
    \/ \E j \in 1..MaxCheck : CkVersion(j)
    \/ CkGather
    \/ VRecommend

SpecV == InitV /\ [][NextV]_vars

----------------------------------------------------------------------------
(* installTool for an entry added to the catalog *)

StartInstallAdded(i) ==
    /\ tasks[i].pc = "idle"
    /\ \E name \in AddedNames :
        tasks' = [tasks EXCEPT ![i] = EnterTool(Started(@, "installTool", <<name>>), name, 1)]
    /\ UNCHANGED <<platform, known, fileExists, profile, faulted, pmInstalled, pmRuns, check, catalogExt, applied, boot>>

InitExt ==
    /\ platform \in Platforms
    /\ known = [c \in AllCommands |-> "unprobed"]
    /\ fileExists \in BOOLEAN
    /\ profile \in InitialProfiles
    /\ ~fileExists => profile = <<>>
    /\ tasks = [i \in {1} |-> IdleTask]
    /\ faulted = FALSE
    /\ pmInstalled = {}
    /\ pmRuns = <<>>
    /\ check = NoCheck
    /\ catalogExt \in CatalogExtensions
    /\ applied = <<>>
    /\ boot = NoBoot

NextExt ==
    \/ \E i \in DOMAIN tasks : StartInstallAdded(i)
    \/ \E i \in DOMAIN tasks : ITLookup(i)
    \/ \E i \in DOMAIN tasks : ITDetect(i)
    \/ \E i \in DOMAIN tasks : ITPrimary(i)
    \/ \E i \in DOMAIN tasks : ITCfgRead(i)
    \/ \E i \in DOMAIN tasks : ITCfgAppend(i)
    \/ \E i \in DOMAIN tasks : ITVerify(i)

SpecExt == InitExt /\ [][NextExt]_vars

----------------------------------------------------------------------------
(* One installTool call in which every awaited command and file access      *)
(* completes (executeCommand resolves on success, failure and timeout)      *)

NextIT ==
    \/ \E i \in DOMAIN tasks : StartInstallTool(i)
    \/ \E i \in DOMAIN tasks : ITLookup(i)
    \/ \E i \in DOMAIN tasks : ITDetect(i)
    \/ \E i \in DOMAIN tasks : ITPrimary(i)
    \/ \E i \in DOMAIN tasks : ITAlt(i)
    \/ \E i \in DOMAIN tasks : ITPost(i)
    \/ \E i \in DOMAIN tasks : ITCfgRead(i)
    \/ \E i \in DOMAIN tasks : ITCfgAppend(i)
    \/ \E i \in DOMAIN tasks : ITVerify(i)

SpecIT == Init /\ [][NextIT]_vars /\ WF_vars(NextIT)

----------------------------------------------------------------------------
(* installTool called with options.version, unified-installer.ts 94-97 *)

\* options.version as the callers pass it ("none": no options object)
VersionOptions == {"none", "18", "20"}

\* tools a caller may ask a version of
VersionedNames == {"nodejs", "python", "java"}

\* the options parameter is received; nothing in the body reads it
StartInstallToolVersion(i) ==
    /\ tasks[i].pc = "idle"
    /\ \E name \in VersionedNames, v \in VersionOptions :
        tasks' = [tasks EXCEPT ![i] =
            EnterTool([Started(@, "installTool", <<name>>) EXCEPT !.version = v], name, 1)]
    /\ UNCHANGED <<platform, known, fileExists, profile, faulted, pmInstalled, pmRuns, check, catalogExt, applied, boot>>

NextVer ==
    \/ \E i \in DOMAIN tasks : StartInstallToolVersion(i)
    \/ \E i \in DOMAIN tasks : ITLookup(i)
    \/ \E i \in DOMAIN tasks : ITDetect(i)
    \/ \E i \in DOMAIN tasks : ITPrimary(i)
    \/ \E i \in DOMAIN tasks : ITAlt(i)
    \/ \E i \in DOMAIN tasks : ITPost(i)
    \/ \E i \in DOMAIN tasks : ITCfgRead(i)
    \/ \E i \in DOMAIN tasks : ITCfgAppend(i)
    \/ \E i \in DOMAIN tasks : ITVerify(i)

SpecVer == Init /\ [][NextVer]_vars

----------------------------------------------------------------------------
(* The synchronous functions of the platform layer and the catalog, called  *)
(* by the installers, the dispatcher and the CLI                            *)

\* calls made in one behaviour
MaxApplied == 2

\* the values of the OperatingSystem enum
OperatingSystems == {"darwin", "linux", "win32", "unknown"}

\* one call of function fn with argument arg returned result
Call(fn, arg, result) ==
    /\ Len(applied) < MaxApplied
    /\ applied' = Append(applied, [fn |-> fn, arg |-> arg, result |-> result])
    /\ UNCHANGED <<platform, known, fileExists, profile, tasks, faulted, pmInstalled, pmRuns, check, catalogExt, boot>>

CallNeedsPackageManagerInstall ==
    \E os \in OperatingSystems :
        Call("needsPackageManagerInstall", os, needsPackageManagerInstall(os))

CallGetPackageManagerInstallCommand ==
    \E os \in OperatingSystems :
        Call("getPackageManagerInstallCommand", os, getPackageManagerInstallCommand(os))

\* process.env.SHELL as the pieces of its text, so that `includes` can be
\* computed: the pieces "zsh" and "bash" are the occurrences of those words,
\* the last piece is the file name of the shell; <<>> is unset or empty
ShellValues ==
    { <<>>,
      <<"/bin/", "zsh">>,
      <<"/bin/", "bash">>,
      <<"/bin/", "sh">>,
      <<"/usr/bin/", "fish">>,
      <<"/home/", "bash", "ir/bin/", "fish">>,
      <<"/opt/", "zsh", "-tools/bin/", "bash">> }

\* process.env.HOME and process.env.USERPROFILE ("": unset)
HomeValues == {"", "/home/dev"}

UserProfileValues == {"", "C:/Users/dev"}

\* part_002 lines 94-96
getHomeDirectory(home, userProfile) ==
    IF home # "" THEN home ELSE IF userProfile # "" THEN userProfile ELSE "~"

\* shell.includes(word)
ShellIncludes(shell, word) == \E j \in DOMAIN shell : shell[j] = word

\* part_002 lines 66-68
isMacOS(p) == p = "darwin"

\* part_002 lines 101-117: the directory and the file name of the result
getShellConfigPath(shell, home, p) ==
    [dir |-> home,
     file |-> IF ShellIncludes(shell, "zsh") THEN ".zshrc"
              ELSE IF ShellIncludes(shell, "bash")
                   THEN (IF isMacOS(p) THEN ".bash_profile" ELSE ".bashrc")
                   ELSE ".profile"]

CallGetShellConfigPath ==
    \E shell \in ShellValues, home \in HomeValues, userProfile \in UserProfileValues :
        Call("getShellConfigPath",
             [shell |-> shell, home |-> home, userProfile |-> userProfile, platform |-> platform],
             getShellConfigPath(shell, getHomeDirectory(home, userProfile), platform))

\* the values of the ToolCategory enum (environment-validator.ts 176-182)
ToolCategories == {"language", "runtime", "sdk", "package_manager", "version_manager"}

\* TOOL_CONFIGS[t].category
category(t) ==
    CASE t \in {"python", "java", "go", "rust"} -> "language"
      [] t \in {"nodejs", "docker"}              -> "runtime"
      [] t = "git"                               -> "package_manager"
      [] t = "flutter"                           -> "sdk"
      [] OTHER                                   -> "undefined"

\* lines 569-571: Object.values(TOOL_CONFIGS).filter(...), as the entries' keys
getToolsByCategory(c) == SelectSeq(getAllToolNames, LAMBDA t : category(t) = c)

\* names looked up by the callers
LookupNames == CatalogNames \cup ObjectPrototypeKeys \cup {"no-such-tool"}

\* lines 555-557: whether the lookup gives a value, and that value's name field
CallGetToolConfig ==
    \E n \in LookupNames :
        Call("getToolConfig", n,
             [defined |-> getToolConfig(n), name |-> IF getToolConfig(n) THEN configName(n) ELSE "undefined"])

CallGetAllToolNames == Call("getAllToolNames", "", getAllToolNames)

CallGetToolsByCategory ==
    \E c \in ToolCategories : Call("getToolsByCategory", c, getToolsByCategory(c))

InitFn ==
    /\ platform \in Platforms
    /\ known = [c \in AllCommands |-> "unprobed"]
    /\ fileExists = FALSE
    /\ profile = <<>>
    /\ tasks = [i \in {} |-> IdleTask]
    /\ faulted = FALSE
    /\ pmInstalled = {}
    /\ pmRuns = <<>>
    /\ check = NoCheck
    /\ catalogExt = "none"
    /\ applied = <<>>
    /\ boot = NoBoot

NextFn ==
    \/ CallNeedsPackageManagerInstall
    \/ CallGetPackageManagerInstallCommand
    \/ CallGetShellConfigPath
    \/ CallGetToolConfig
    \/ CallGetAllToolNames
    \/ CallGetToolsByCategory

SpecFn == InitFn /\ [][NextFn]_vars

----------------------------------------------------------------------------
(* Program start: index.ts 11-29 and the top level of mcp-server.ts          *)
(* (index.ts 532-534 of the snapshot)                                        *)

\* arguments on the command line
MaxArgs == 3

ArgWords == {"--stdio", "--mcp", "check", "install"}

ArgLists == UNION {[1..n -> ArgWords] : n \in 0..MaxArgs}

\* mcp-server.ts declares `class DevEnvSetupServer` without exporting it, so
\* what `import { DevEnvSetupServer } from './mcp-server.js'` gives depends on
\* the module system of the build: an ES module build rejects the import when
\* linking; a CommonJS build evaluates mcp-server.js and binds undefined
Builds == {"esm", "commonjs"}

\* index.ts line 15
isMCPMode(args) ==
    \/ Len(args) = 0
    \/ \E j \in DOMAIN args : args[j] = "--stdio"
    \/ \E j \in DOMAIN args : args[j] = "--mcp"

\* line 11: the static import is resolved before the body of index.ts runs;
\* evaluating mcp-server.js runs its top level, `new DevEnvSetupServer()` and
\* `server.run()` (532-534)
LoadServerModule ==
    /\ boot.pc = "import"
    /\ boot' = IF boot.build = "esm"
               THEN [boot EXCEPT !.pc = "done", !.crashed = TRUE]
               ELSE [boot EXCEPT !.pc = "main", !.servers = @ + 1]
    /\ UNCHANGED <<platform, known, fileExists, profile, tasks, faulted, pmInstalled, pmRuns, check, catalogExt, applied>>

\* lines 14-22: the mode test; in MCP mode `new DevEnvSetupServer()` on the
\* binding the import gave
EntryPoint ==
    /\ boot.pc = "main"
    /\ boot' = IF isMCPMode(boot.args)
               THEN [boot EXCEPT !.pc = "done", !.crashed = TRUE]
               ELSE [boot EXCEPT !.pc = "cli"]
    /\ UNCHANGED <<platform, known, fileExists, profile, tasks, faulted, pmInstalled, pmRuns, check, catalogExt, applied>>

\* lines 23-28: import('./cli.js'); a failed import exits with status 1
LoadCli ==
    /\ boot.pc = "cli"
    /\ \E loaded \in BOOLEAN :
        boot' = [boot EXCEPT !.pc = "done", !.cli = loaded, !.crashed = ~loaded]
    /\ UNCHANGED <<platform, known, fileExists, profile, tasks, faulted, pmInstalled, pmRuns, check, catalogExt, applied>>

InitStart ==
    /\ platform \in Platforms
    /\ known = [c \in AllCommands |-> "unprobed"]
    /\ fileExists = FALSE
    /\ profile = <<>>
    /\ tasks = [i \in {} |-> IdleTask]
    /\ faulted = FALSE
    /\ pmInstalled = {}
    /\ pmRuns = <<>>
    /\ check = NoCheck
    /\ catalogExt = "none"
    /\ applied = <<>>
    /\ boot \in {[NoBoot EXCEPT !.args = a, !.build = b, !.pc = "import"] : a \in ArgLists, b \in Builds}

NextStart ==
    \/ LoadServerModule
    \/ EntryPoint
    \/ LoadCli

SpecStart == InitStart /\ [][NextStart]_vars

----------------------------------------------------------------------------
(* installPackageManager, unified-installer.ts 33-92 *)

\* the installer script may or may not leave `brew` on PATH, whatever its exit status
Bootstrapped(kn, lands) == IF lands THEN [kn EXCEPT !["brew"] = "yes"] ELSE kn

\* line 87: `result.error || result.stderr` of the installer script, from its event
BootstrapDetails(e) ==
    IF e.ok THEN <<"stderr", "bootstrap", 0>> ELSE <<"error", "bootstrap", 0>>

\* mutant: the exit status of the installer script decides
InstalledByExitStatus(pm, resultOk) == resultOk

\* lines 73-75: `if (pm)` on the second detection decides, not `result`
Installed(pm, resultOk) == pm.name # "none"

\* installPackageManager returns r to its caller
ReturnPM(tk, r) ==
    LET t1 == [tk EXCEPT !.log = Append(@, [Event(tk, "pmreturn", "installPackageManager", 0, r.success) EXCEPT !.res = r])]
    IN  CASE tk.op = "installPackageManager" -> Finish(t1, r)

StartInstallPackageManager(i) ==
    /\ tasks[i].pc = "idle"
    /\ tasks' = [tasks EXCEPT ![i] = [Started(@, "installPackageManager", <<>>) EXCEPT !.pc = "ipm_detect"]]
    /\ UNCHANGED <<platform, known, fileExists, profile, faulted, pmInstalled, pmRuns, check, catalogExt, applied, boot>>

\* lines 34-67: the first detection and everything decided from it
IpmDetect(i) ==
    LET tk == tasks[i]
        os == detectOS(platform)
    IN
    /\ tk.pc = "ipm_detect"
    /\ \E onPath \in PossiblePaths :
        LET pm == detectPackageManager(platform, onPath)
            t1 == LoggedProbes(tk, pm.probes, 1, onPath)
        IN  /\ known' = AfterProbes(known, pm.probes, onPath)
            /\ tasks' = [tasks EXCEPT ![i] =
                  IF ~needsPackageManagerInstall(os)
                  THEN IF pm.name # "none"
                       THEN ReturnPM(t1, InstallResult(TRUE, "Package manager " \o pm.name \o " is already available", NoDetails, "absent"))
                       ELSE ReturnPM(t1, InstallResult(FALSE, "No package manager detected and none can be auto-installed for this OS", NoDetails, "absent"))
                  ELSE IF pm.name # "none"
                  THEN ReturnPM(t1, InstallResult(TRUE, pm.name \o " is already installed", NoDetails, "absent"))
                  ELSE IF getPackageManagerInstallCommand(os) = "null"
                  THEN ReturnPM(t1, InstallResult(FALSE, "Cannot determine package manager installation command", NoDetails, "absent"))
                  ELSE [t1 EXCEPT !.pc = "ipm_exec"]]
    /\ UNCHANGED <<platform, fileExists, profile, faulted, pmInstalled, pmRuns, check, catalogExt, applied, boot>>

\* line 70: the installer script, awaited with a timeout of 600000 ms
IpmExec(i) ==
    LET tk == tasks[i] IN
    /\ tk.pc = "ipm_exec"
    /\ \E raw \in ExecOutcomes, lands \in BOOLEAN :
        LET result == executeCommand(raw)
            t1 == [Logged(tk, "bootstrap", getPackageManagerInstallCommand(detectOS(platform)), 0, result.success)
                      EXCEPT !.log[Len(tk.log) + 1].timedOut = (raw.ending = "timeout")]
        IN  /\ known' = Bootstrapped(known, lands)
            /\ tasks' = [tasks EXCEPT ![i] =
                  [t1 EXCEPT !.installDetails = <<"stdout", result.stdout, 0>>, !.pc = "ipm_verify"]]
    /\ UNCHANGED <<platform, fileExists, profile, faulted, pmInstalled, pmRuns, check, catalogExt, applied, boot>>

\* lines 72-91: the second detection and the result
IpmVerify(i) ==
    LET tk == tasks[i]
        result == tk.log[Len(tk.log)]
    IN
    /\ tk.pc = "ipm_verify"
    /\ \E onPath \in PossiblePaths :
        LET pm == detectPackageManager(platform, onPath)
            t1 == LoggedProbes(tk, pm.probes, 1, onPath)
        IN  /\ known' = AfterProbes(known, pm.probes, onPath)
            /\ tasks' = [tasks EXCEPT ![i] =
                  IF Installed(pm, result.ok)
                  THEN ReturnPM(t1, InstallResult(TRUE, pm.name \o " installed successfully", tk.installDetails, "true"))
                  ELSE ReturnPM(t1, InstallResult(FALSE, "Failed to install package manager", BootstrapDetails(result), "absent"))]
    /\ UNCHANGED <<platform, fileExists, profile, faulted, pmInstalled, pmRuns, check, catalogExt, applied, boot>>

NextIPM ==
    \/ \E i \in DOMAIN tasks : StartInstallPackageManager(i)
    \/ \E i \in DOMAIN tasks : IpmDetect(i)
    \/ \E i \in DOMAIN tasks : IpmExec(i)
    \/ \E i \in DOMAIN tasks : IpmVerify(i)

SpecIPM == Init /\ [][NextIPM]_vars

----------------------------------------------------------------------------
(* getRecommendations called on a status, environment-validator.ts 132-162 *)

\* the tools of the statuses, in an order that is not the order of the advice
StatusNames == <<"java", "docker", "rust", "nodejs", "python", "git">>

\* status.tools for a choice of which tools are listed and which are installed
StatusTools(f) ==
    LET listed == SelectSeq(StatusNames, LAMBDA n : f[n] # "absent")
    IN  [j \in DOMAIN listed |->
            ToolStatus(listed[j], displayName(listed[j]), f[listed[j]] = "installed", "absent")]

StatusInputs ==
    {[os |-> detectOS(platform), platform |-> platform, packageManager |-> pm, tools |-> StatusTools(f)] :
        pm \in {NullPackageManager, [name |-> "apt", available |-> TRUE]},
        f \in [{StatusNames[j] : j \in DOMAIN StatusNames} -> {"absent", "installed", "missing"}]}

\* the function is synchronous and calls nothing: only its result is recorded
CallGetRecommendations ==
    /\ applied = <<>>
    /\ \E status \in StatusInputs :
        applied' = <<[fn |-> "getRecommendations", arg |-> status, result |-> getRecommendations(status)]>>
    /\ UNCHANGED <<platform, known, fileExists, profile, tasks, faulted, pmInstalled, pmRuns, check, catalogExt, boot>>

NextRec == CallGetRecommendations

SpecRec == InitFn /\ [][NextRec]_vars

----------------------------------------------------------------------------
(* setup_all (index.ts 478-523) and the CLI command install-all (part_003   *)
(* 199-249): one installer after the other, each awaited                    *)

\* how many of the five steps after the package manager a skip list leaves to run
MaxSetupSteps == 2

\* names a caller may put in the skip list
SkipNames == {"python", "nodejs", "git", "flutter", "android", "java"}

\* index.ts 492-493 and 506-517: the steps of setupAllEnvironments for a skip list
SetupPlan(skip) ==
    LET filtered == SelectSeq(<<"python", "nodejs", "git">>, LAMBDA t : t \notin skip)
    IN  <<[op |-> "installPackageManager", names |-> <<>>]>>
        \o (IF filtered # <<>> THEN <<[op |-> "installMultipleTools", names |-> filtered]>> ELSE <<>>)
        \o (IF "flutter" \notin skip THEN <<[op |-> "installTool", names |-> <<"flutter">>]>> ELSE <<>>)
        \o (IF "android" \notin skip THEN <<[op |-> "installAndroidStudio", names |-> <<>>]>> ELSE <<>>)

\* part_003 210-212 and 216-239: the steps of install-all for a skip list
InstallAllPlan(skip) ==
    LET toolsToInstall == SelectSeq(<<"git", "python", "nodejs">>, LAMBDA t : t \notin skip)
    IN  <<[op |-> "installPackageManager", names |-> <<>>]>>
        \o [j \in DOMAIN toolsToInstall |-> [op |-> "installTool", names |-> <<toolsToInstall[j]>>]]

PlanOf(tk) == IF tk.outer = "setup_all" THEN SetupPlan(tk.skip) ELSE InstallAllPlan(tk.skip)

\* the tools a plan goes through after the package manager
PlanTools(plan) ==
    UNION {IF plan[j].op = "installAndroidStudio" THEN {"android"}
           ELSE {plan[j].names[n] : n \in DOMAIN plan[j].names} : j \in DOMAIN plan}

SkipLists == {skip \in SUBSET SkipNames : Cardinality(PlanTools(SetupPlan(skip))) <= MaxSetupSteps}

\* the flow awaits step s of its plan
StartStep(tk, s) ==
    LET step == PlanOf(tk)[s]
        t1 == [Started(tk, step.op, step.names) EXCEPT !.step = s, !.k = 0, !.results = NoResults]
    IN  CASE step.op = "installPackageManager" -> [t1 EXCEPT !.pc = "ipm_detect"]
          [] step.op = "installMultipleTools"  -> [t1 EXCEPT !.pc = "mt_loop"]
          [] step.op = "installTool"           -> EnterTool(t1, step.names[1], 1)
          [] step.op = "installAndroidStudio"  -> [t1 EXCEPT !.pc = "as_detect"]

\* index.ts 486 and part_003 222-227: `if (!pmResult.success)`
PackageManagerFailed(tk) == tk.step = 1 /\ ~tk.ret.success

\* the flow ends: setup_all returns its report, install-all returns or exits
EndSetup(tk, how) == [tk EXCEPT !.pc = "setup_done", !.status = how]

\* index.ts 218-227, 376-377 and 478-483: the dispatcher's platform test,
\* then the package manager
StartSetupAll(i) ==
    /\ tasks[i].pc = "idle"
    /\ \E skip \in SkipLists :
        LET t0 == [tasks[i] EXCEPT !.outer = "setup_all", !.skip = skip]
        IN  tasks' = [tasks EXCEPT ![i] =
                IF ~isSupported(platform) THEN EndSetup(t0, "returned") ELSE StartStep(t0, 1)]
    /\ UNCHANGED <<platform, known, fileExists, profile, faulted, pmInstalled, pmRuns, check, catalogExt, applied, boot>>

\* part_003 204-220: the platform test, then the package manager
StartInstallAll(i) ==
    /\ tasks[i].pc = "idle"
    /\ \E skip \in SkipLists :
        LET t0 == [tasks[i] EXCEPT !.outer = "install-all", !.skip = skip]
        IN  tasks' = [tasks EXCEPT ![i] =
                IF ~isSupported(platform) THEN EndSetup(t0, "exited") ELSE StartStep(t0, 1)]
    /\ UNCHANGED <<platform, known, fileExists, profile, faulted, pmInstalled, pmRuns, check, catalogExt, applied, boot>>

\* the awaited installer has returned: the flow stops after a failed package
\* manager step, and otherwise goes on to its next step whatever was returned
SetupContinue(i) ==
    LET tk == tasks[i] IN
    /\ tk.outer # "none"
    /\ tk.pc = "done"
    /\ tk.status = "returned"
    /\ tasks' = [tasks EXCEPT ![i] =
          IF PackageManagerFailed(tk)
          THEN EndSetup(tk, IF tk.outer = "install-all" THEN "exited" ELSE "returned")
          ELSE IF tk.step = Len(PlanOf(tk))
          THEN EndSetup(tk, "returned")
          ELSE StartStep(tk, tk.step + 1)]
    /\ UNCHANGED <<platform, known, fileExists, profile, faulted, pmInstalled, pmRuns, check, catalogExt, applied, boot>>

InitSetup ==
    /\ platform \in {"darwin", "linux", "win32"}
    /\ known = [c \in AllCommands |-> "unprobed"]
    /\ fileExists = TRUE
    /\ profile = <<UserLine>>
    /\ tasks = [i \in {1} |-> IdleTask]
    /\ faulted = FALSE
    /\ pmInstalled = {}
    /\ pmRuns = <<>>
    /\ check = NoCheck
    /\ catalogExt = "none"
    /\ applied = <<>>
    /\ boot = NoBoot

NextSetup ==
    \/ \E i \in DOMAIN tasks : StartSetupAll(i)
    \/ \E i \in DOMAIN tasks : StartInstallAll(i)
    \/ \E i \in DOMAIN tasks : SetupContinue(i)
    \/ \E i \in DOMAIN tasks : IpmDetect(i)
    \/ \E i \in DOMAIN tasks : IpmExec(i)
    \/ \E i \in DOMAIN tasks : IpmVerify(i)
    \/ \E i \in DOMAIN tasks : ITLookup(i)
    \/ \E i \in DOMAIN tasks : ITDetect(i)
    \/ \E i \in DOMAIN tasks : ITPrimary(i)
    \/ \E i \in DOMAIN tasks : ITAlt(i)
    \/ \E i \in DOMAIN tasks : ITPost(i)
    \/ \E i \in DOMAIN tasks : ITCfgRead(i)
    \/ \E i \in DOMAIN tasks : ITCfgAppend(i)
    \/ \E i \in DOMAIN tasks : ITVerify(i)
    \/ \E i \in DOMAIN tasks : MTLoop(i)
    \/ \E i \in DOMAIN tasks : AsDetect(i)
    \/ \E i \in DOMAIN tasks : AsJava(i)
    \/ \E i \in DOMAIN tasks : AsSnap(i)
    \/ \E i \in DOMAIN tasks : AsExec(i)
    \/ \E i \in DOMAIN tasks : SpRead(i)
    \/ \E i \in DOMAIN tasks : SpAppend(i)
    \/ \E i \in DOMAIN tasks : SpWrite(i)

SpecSetup == InitSetup /\ [][NextSetup]_vars

----------------------------------------------------------------------------
(* Properties *)

\* the history of task i
LogOf(i) == tasks[i].log

\* the positions in L of the events of the installTool call made for element k
Flow(L, k) == {e \in DOMAIN L : L[e].k = k}

\* catalog tools that carry envVars or a shellConfig snippet
ConfigTools == {t \in CatalogNames : envVars(t) # <<>> \/ shellConfig(t) # ""}

\* C1: as long as no profile access fails, every tool that carries envVars or a
\* shellConfig has at most one copy of its block in the profile, exactly one
\* once the Configurator has been called for it, and of the Configurator calls
\* made for one tool the first returns true and every later one returns false.
C1_ConfiguratorIdempotent ==
    ~faulted =>
        /\ \A t \in ConfigTools : BlockCount(profile, configContent(t)) <= 1
        /\ \A i \in DOMAIN tasks : \A b \in DOMAIN LogOf(i) :
            LET L == LogOf(i) IN
            L[b].kind = "configured" =>
                /\ L[b].cmd \in ConfigTools
                /\ BlockCount(profile, configContent(L[b].cmd)) = 1
                /\ L[b].ok <=> ~(\E a \in 1..(b - 1) : L[a].kind = "configured" /\ L[a].cmd = L[b].cmd)

\* C2: no step of any operation removes or overwrites profile content: the
\* content before the step is a prefix of the content after it.
C2_ProfileAppendOnly == [][IsPrefix(profile, profile')]_vars

\* C3: a call of installTool for a cataloged tool whose first existence probe
\* succeeds consists of that probe and the return of a success and of nothing
\* else: no detection probe, install command, alternate, post-install step or
\* profile access.
C3_InstalledShortCircuit ==
    \A i \in DOMAIN tasks : \A c \in DOMAIN LogOf(i) :
        LET L == LogOf(i) IN
        (/\ L[c].kind = "call" /\ L[c].cmd \in CatalogNames
         /\ c < Len(L) /\ L[c + 1].kind = "which" /\ L[c + 1].ok)
        => /\ L[c + 1].cmd = commandToCheck(L[c].cmd)
           /\ c + 2 <= Len(L)
           /\ L[c + 2].kind = "return" /\ L[c + 2].res.success
           /\ L[c + 2].res.needsRestart = "absent"
           /\ Flow(L, L[c].k) = {c, c + 1, c + 2}

\* C3 witness: a call for a cataloged tool found installed has returned.
C3_Witness ==
    \E i \in DOMAIN tasks : \E c \in DOMAIN LogOf(i) :
        LET L == LogOf(i) IN
        /\ L[c].kind = "call" /\ L[c].cmd \in CatalogNames
        /\ c + 2 <= Len(L) /\ L[c + 1].kind = "which" /\ L[c + 1].ok
        /\ L[c + 2].kind = "return" /\ L[c + 2].res.success

\* C4: a call of installTool for a name that is not in the catalog returns a
\* failure at once: the call runs no shell command and touches no file.
C4_UnknownToolNoShell ==
    \A i \in DOMAIN tasks : \A c \in DOMAIN LogOf(i) :
        LET L == LogOf(i) IN
        (L[c].kind = "call" /\ L[c].cmd \notin CatalogNames)
        => /\ Flow(L, L[c].k) \subseteq {c, c + 1}
           /\ c + 1 <= Len(L) => (L[c + 1].kind = "return" /\ ~L[c + 1].res.success)

\* the events of one kind in the installTool call made for element k
EventsOf(L, k, kind) == {e \in Flow(L, k) : L[e].kind = kind}

\* the install commands (primary or alternate) that succeeded in that call
InstallSuccesses(L, k) == {e \in Flow(L, k) : L[e].kind \in {"primary", "alt"} /\ L[e].ok}

\* the alternates run one at a time in listed order, each only after the
\* command before it (the primary, or the alternate listed before) has failed
AlternatesInOrder(L) ==
    \A a \in DOMAIN L :
        L[a].kind = "alt" =>
            LET alts == alternativeCommands(L[a].tool, L[a].pm) IN
            /\ L[a].n \in 1..Len(alts)
            /\ L[a].cmd = alts[L[a].n]
            /\ a > 1 /\ L[a - 1].k = L[a].k /\ ~L[a - 1].ok
            /\ IF L[a].n = 1 THEN L[a - 1].kind = "primary"
               ELSE L[a - 1].kind = "alt" /\ L[a - 1].n = L[a].n - 1

SoftFailure ==
    InstallResult(FALSE, "installation completed but verification failed",
                  <<"hint", "The tool may require a shell restart to be available", 0>>, "true")

\* C5 (as claimed): the alternates run in order after a failed primary and
\* stop at the first success, and once an alternate has succeeded the call
\* returns a success whose details are that alternate's standard output.
C5_AlternateSuccessIsSuccess ==
    \A i \in DOMAIN tasks :
        LET L == LogOf(i) IN
        /\ AlternatesInOrder(L)
        /\ \A a, r \in DOMAIN L :
            (L[a].kind = "alt" /\ L[a].ok /\ L[r].kind = "return" /\ L[r].k = L[a].k)
            => (L[r].res.success /\ L[r].res.details = <<"stdout", "alt", L[a].n>>)

\* C5 (amended): the alternates run in order after a failed primary and stop
\* at the first success; once an alternate has succeeded the call returns
\* either a success whose details are that alternate's standard output, when
\* the final probe succeeds or the Configurator wrote the profile, or else the
\* soft verification failure; never the primary's failure text.
C5_FallbackOrder ==
    \A i \in DOMAIN tasks :
        LET L == LogOf(i) IN
        /\ AlternatesInOrder(L)
        /\ \A a \in DOMAIN L :
            (L[a].kind = "alt" /\ L[a].ok) =>
                \A r \in DOMAIN L :
                    (L[r].kind = "return" /\ L[r].k = L[a].k)
                    => /\ L[r].res.success <=>
                            (L[r - 1].kind = "verify" /\ L[r - 1].ok) \/ (\E g \in EventsOf(L, L[a].k, "configured") : L[g].ok)
                       /\ L[r].res.success => L[r].res.details = <<"stdout", "alt", L[a].n>>
                       /\ ~L[r].res.success => L[r].res = SoftFailure

\* C5 witness: the primary and the first alternate failed, the second
\* alternate succeeded, and the call returned a success.
C5_Witness ==
    \E i \in DOMAIN tasks : \E a, r \in DOMAIN LogOf(i) :
        LET L == LogOf(i) IN
        /\ L[a].kind = "alt" /\ L[a].n = 2 /\ L[a].ok
        /\ L[r].kind = "return" /\ L[r].k = L[a].k /\ L[r].res.success

\* C6: when the primary install command and all the alternates of the method
\* (there may be none) have failed, the call returns at once the failure whose
\* details are the primary's error, having run no post-install step, no
\* profile access and no verification probe.
C6_AllFailedPrimaryError ==
    \A i \in DOMAIN tasks : \A p \in DOMAIN LogOf(i) :
        LET L == LogOf(i)
            alts == alternativeCommands(L[p].tool, L[p].pm)
            tried == EventsOf(L, L[p].k, "alt")
        IN  (/\ L[p].kind = "primary" /\ ~L[p].ok
             /\ Cardinality(tried) = Len(alts)
             /\ \A a \in tried : ~L[a].ok)
            => /\ p + Len(alts) + 1 <= Len(L)
               /\ L[p + Len(alts) + 1].kind = "return"
               /\ L[p + Len(alts) + 1].k = L[p].k
               /\ L[p + Len(alts) + 1].res =
                    InstallResult(FALSE, "Failed to install", <<"error", "primary", 0>>, "absent")
               /\ \A e \in Flow(L, L[p].k) :
                    L[e].kind \notin {"post", "read", "append", "configured", "verify"}

\* C6 witness: a primary command and an alternate have failed and the call
\* has returned.
C6_Witness ==
    \E i \in DOMAIN tasks : \E p, r \in DOMAIN LogOf(i) :
        LET L == LogOf(i) IN
        /\ L[p].kind = "primary" /\ ~L[p].ok
        /\ L[r].kind = "return" /\ L[r].k = L[p].k /\ ~L[r].res.success
        /\ L[r - 1].kind = "alt" /\ ~L[r - 1].ok

\* C7: a call in which an install command succeeded ends with the final
\* existence probe, and returns success exactly when that probe succeeds or
\* the Configurator wrote the profile in this call; otherwise it returns the
\* soft verification failure, which differs from the failed-install result.
C7_SuccessIffVerifiedOrRestart ==
    \A i \in DOMAIN tasks : \A r \in DOMAIN LogOf(i) :
        LET L == LogOf(i)
            wrote == \E g \in EventsOf(L, L[r].k, "configured") : L[g].ok
        IN  (L[r].kind = "return" /\ InstallSuccesses(L, L[r].k) # {})
            => /\ L[r - 1].kind = "verify" /\ L[r - 1].k = L[r].k
               /\ L[r].res.success <=> (L[r - 1].ok \/ wrote)
               /\ L[r].res.success =>
                    /\ L[r].res.message = "installed successfully"
                    /\ L[r].res.needsRestart = (IF wrote THEN "true" ELSE "false")
               /\ ~L[r].res.success =>
                    /\ L[r].res = SoftFailure
                    /\ L[r].res.message # "Failed to install"

\* C7 witness: the install command succeeded, the final probe failed, the
\* Configurator wrote the profile, and the call returned success.
C7_Witness ==
    \E i \in DOMAIN tasks : \E r \in DOMAIN LogOf(i) :
        LET L == LogOf(i) IN
        /\ L[r].kind = "return" /\ L[r].res.success
        /\ InstallSuccesses(L, L[r].k) # {}
        /\ L[r - 1].kind = "verify" /\ ~L[r - 1].ok
        /\ \E g \in EventsOf(L, L[r].k, "configured") : L[g].ok

\* the priority list of the claim: macOS, Linux, any other platform
ClaimedOrder(p) ==
    IF p = "darwin" THEN <<"homebrew">>
    ELSE IF p = "linux" THEN <<"apt", "dnf", "yum", "pacman", "zypper">>
    ELSE <<>>

Positions(names, n) == {j \in DOMAIN names : names[j] = n}

\* C9: when installMultipleTools is over it has returned a mapping, it has
\* called installTool for every element of the input, and the mapping has a
\* key for exactly the distinct input names, each with the result returned by
\* the (last) call made for that name.
C9_BatchIsolation ==
    \A i \in DOMAIN tasks :
        LET tk == tasks[i]
            L == tk.log
        IN  (tk.op = "installMultipleTools" /\ tk.pc = "done")
            => /\ tk.status = "returned"
               /\ \A j \in DOMAIN tk.names :
                    \E c \in DOMAIN L : L[c].kind = "call" /\ L[c].k = j /\ L[c].cmd = tk.names[j]
               /\ DOMAIN tk.results = {tk.names[j] : j \in DOMAIN tk.names}
               /\ \A n \in DOMAIN tk.results :
                    \E r \in DOMAIN L :
                        /\ L[r].kind = "return" /\ L[r].res = tk.results[n]
                        /\ L[r].k \in Positions(tk.names, n)
                        /\ \A j \in Positions(tk.names, n) : j <= L[r].k

\* C10: in installMultipleTools the calls of installTool follow one another
\* in input order: the call for element k+1 starts right after the call for
\* element k has returned, every event between a call's start and its return
\* belongs to that call, and at most one call is in progress at any time.
C10_OneFlowAtATime ==
    \A i \in DOMAIN tasks :
        LET L == LogOf(i) IN
        tasks[i].op = "installMultipleTools" =>
            /\ \A c \in DOMAIN L :
                /\ L[c].kind = "call" =>
                    IF L[c].k = 1 THEN c = 1
                    ELSE L[c - 1].kind = "return" /\ L[c - 1].k = L[c].k - 1
                /\ c > 1 => L[c - 1].k <= L[c].k
            /\ Cardinality({k \in 1..Len(tasks[i].names) :
                    /\ EventsOf(L, k, "call") # {}
                    /\ EventsOf(L, k, "return") = {}
                    /\ EventsOf(L, k, "throw") = {}}) <= 1

\* C10 witness: both calls of a two-element input ran an install command.
C10_Witness ==
    \E i \in DOMAIN tasks :
        LET L == LogOf(i) IN
        /\ tasks[i].op = "installMultipleTools"
        /\ tasks[i].pc = "done"
        /\ EventsOf(L, 1, "primary") # {}
        /\ EventsOf(L, 2, "primary") # {}

\* catalog tools whose block starts with the marker line
MarkedTools == {t \in CatalogNames : envVars(t) # <<>>}

\* C11: under every interleaving of the install requests in flight, as long
\* as no profile access fails, the profile never holds two copies of the
\* marker block of one tool.
C11_NoDuplicateBlockUnderInterleaving ==
    ~faulted => \A t \in MarkedTools : BlockCount(profile, configContent(t)) <= 1

\* C12: when checkAllTools has returned (alone or inside getSystemStatus), it
\* has returned one status per catalog name probed, and the i-th status is
\* the one of the i-th catalog name, with the answer its own existence probe
\* got, in whatever order the concurrent probes completed.
C12_StatusesInCatalogOrder ==
    (check.op \in {"checkAllTools", "getSystemStatus"} /\ check.phase \in {"done", "reported"}) =>
        /\ Len(check.tools) = Len(CheckedNames)
        /\ \A i \in DOMAIN CheckedNames :
            /\ check.tools[i].name = CheckedNames[i]
            /\ check.tools[i].displayName = displayName(CheckedNames[i])
            /\ check.tools[i].installed <=> known[commandToCheck(CheckedNames[i])] = "yes"

\* C12 witness: checkAllTools has returned after the probes completed in the
\* order last, first, second, the last tool being the only one installed.
C12_Witness ==
    /\ check.op = "checkAllTools"
    /\ check.phase = "done"
    /\ check.arrival = <<3, 1, 2>>
    /\ check.tools[3].installed
    /\ ~check.tools[1].installed

\* C13: no public install operation throws: under every outcome of the shell
\* commands and of the profile reads, appends and writes, an operation that
\* is over has returned a result.
C13_NeverThrows == \A i \in DOMAIN tasks : tasks[i].status # "thrown"

\* C18: in installNodeViaTarget, once the nvm install script has failed the
\* call falls back to installTool('nodejs'): it runs no `nvm install`, and what
\* follows the return of installNvm is the call of installTool.
C18_BootstrapFailureFallsBack ==
    \A i \in DOMAIN tasks :
        LET L == LogOf(i) IN
        tasks[i].op = "installNodeViaTarget" =>
            \A e \in DOMAIN L :
                (L[e].kind = "script" /\ ~L[e].ok) =>
                    /\ \A f \in DOMAIN L : f > e => L[f].kind # "nvminstall"
                    /\ \A f \in DOMAIN L :
                        (f > e /\ L[f].kind = "nvmreturn" /\ f + 1 <= Len(L)) =>
                            (L[f + 1].kind = "call" /\ L[f + 1].cmd = "nodejs")

\* the package manager whose command is cmd
ManagerOf(cmd) == CHOOSE m \in PackageManagers : ManagerCommand(m) = cmd

\* the detection probes that found a manager for which the tool being
\* installed has no install method
NoMethodFound(L) ==
    {e \in DOMAIN L :
        /\ L[e].kind = "detect"
        /\ L[e].ok
        /\ HasInstallMethods(L[e].tool)
        /\ ~HasMethod(L[e].tool, ManagerOf(L[e].cmd))}

\* String.includes on a text built from parts: x is one of the parts
TextIncludes(parts, x) == \E j \in DOMAIN parts : parts[j] = x

C15_UnsupportedBeforeAnyCommand ==
    checkOrder(detectOS(platform)) = <<>> =>
        \A i \in DOMAIN tasks :
            LET L == LogOf(i) IN
            \A e \in DOMAIN L :
                (L[e].kind = "return" /\ L[e].cmd \in CatalogNames /\ ~L[e].res.success) =>
                    \A f \in Flow(L, L[e].k) : L[f].kind \in {"call", "return"}

\* the commands the validator may run: existence probes and version probes
ProbesOnly ==
    {<<"which", c>> : c \in AllCommands}
        \cup {<<"version", commandToCheck(t) \o " " \o versionFlag(t)>> : t \in CatalogNames}

\* C16: on a platform with no package-manager strategy, the status returned
\* by getSystemStatus has packageManager null, the recommendations computed
\* from it hold the advice to install a package manager, and the commands run
\* are existence and version probes of the tools only (no install command and
\* no probe of a package manager).
C16_UnsupportedStatus ==
    (checkOrder(detectOS(platform)) = <<>> /\ check.op = "getSystemStatus") =>
        /\ check.ran \subseteq ProbesOnly
        /\ \A r \in check.ran : r[2] \notin PMCommands
        /\ check.phase \in {"done", "reported"} =>
              SystemStatus(check).packageManager = NullPackageManager
        /\ check.phase = "reported" =>
              \E j \in DOMAIN check.recs :
                  check.recs[j] = "Install a package manager to easily manage development tools"

\* C16 witness: on such a platform the recommendations have been computed
\* from a status with a tool installed and a tool missing.
C16_Witness ==
    /\ platform = "freebsd"
    /\ check.op = "getSystemStatus"
    /\ check.phase = "reported"
    /\ \E j \in DOMAIN check.tools : check.tools[j].installed
    /\ \E j \in DOMAIN check.tools : ~check.tools[j].installed

\* the set of the elements of a sequence
Range(s) == {s[j] : j \in DOMAIN s}

\* C17: when isSystemReady(required) has returned, every required name is in
\* exactly one of missing and installed, it is in missing exactly when it is
\* not in the catalog or its existence probe failed, the two lists hold
\* nothing but required names, and ready is true exactly when missing is empty.
C17_ReadyPartition ==
    (check.op = "isSystemReady" /\ check.phase = "done") =>
        LET missing == Range(check.ready.missing)
            installed == Range(check.ready.installed)
        IN  /\ \A n \in Range(check.names) :
                /\ (n \in missing) # (n \in installed)
                /\ n \in missing <=> (n \notin CatalogNames \/ known[commandToCheck(n)] # "yes")
            /\ missing \cup installed \subseteq Range(check.names)
            /\ Len(check.ready.missing) + Len(check.ready.installed) = Len(check.names)
            /\ check.ready.ready <=> check.ready.missing = <<>>


\* the events of the Android Studio flow itself (not of the installTool('java') it calls)
OwnEvents(L, kinds) == {e \in DOMAIN L : L[e].k = 0 /\ L[e].kind \in kinds}

\* the Java prerequisite was met before event e: `which java` answered yes,
\* or installTool('java') returned success
JavaMetBefore(L, e) ==
    \E m \in 1..(e - 1) :
        \/ L[m].kind = "which" /\ L[m].k = 0 /\ L[m].cmd = "java" /\ L[m].ok
        \/ L[m].kind = "return" /\ L[m].cmd = "java" /\ L[m].ok

JavaInstallFailed(L) == \E m \in DOMAIN L : L[m].kind = "return" /\ L[m].cmd = "java" /\ ~L[m].ok

\* C19: installAndroidStudio runs the IDE install command only after the java
\* command was found or installTool('java') returned success; when
\* installTool('java') fails it returns the failure "Failed to install Java
\* (required for Android development)" without having run the IDE install
\* command and without having read or written the profile for the Android block.
C19_JavaBeforeIde ==
    \A i \in DOMAIN tasks :
        LET tk == tasks[i]
            L == tk.log
        IN  tk.op = "installAndroidStudio" =>
              /\ \A e \in OwnEvents(L, {"ide"}) : JavaMetBefore(L, e)
              /\ JavaInstallFailed(L) =>
                    /\ OwnEvents(L, {"ide", "read", "append", "write"}) = {}
                    /\ tk.status # "thrown"
                    /\ tk.status = "returned" =>
                          /\ ~tk.ret.success
                          /\ tk.ret.message = "Failed to install Java (required for Android development)"

\* java was not found, installTool('java') ran its install command and
\* failed, and installAndroidStudio has returned
C19_Witness ==
    \E i \in DOMAIN tasks :
        LET L == tasks[i].log
        IN  /\ tasks[i].op = "installAndroidStudio"
            /\ tasks[i].status = "returned"
            /\ JavaInstallFailed(L)
            /\ \E m \in DOMAIN L : L[m].kind = "primary" /\ L[m].k = 1 /\ ~L[m].ok


\* at most one event of each kind in kinds, per step number, in call k
OncePerStep(L, k, kinds) ==
    \A a, b \in Flow(L, k) :
        (L[a].kind \in kinds /\ L[b].kind = L[a].kind /\ L[b].n = L[a].n) => a = b

\* the steps of installTool call k: one primary command, each alternate,
\* each post-install step and each probe of detectPackageManager once, one
\* pass through the profile, two probes of the tool's own command
StepsWithinBounds(L, k) ==
    /\ OncePerStep(L, k, {"primary", "alt", "post", "detect", "read", "append", "configured"})
    /\ \A a \in EventsOf(L, k, "alt") : L[a].n \in 1..Len(alternativeCommands(L[a].tool, L[a].pm))
    /\ \A a \in EventsOf(L, k, "post") : L[a].n \in 1..Len(postInstallSteps(L[a].tool, L[a].pm))
    /\ Cardinality(EventsOf(L, k, "which") \cup EventsOf(L, k, "verify")) <= 2

InstallToolRunning == \E i \in DOMAIN tasks : tasks[i].op = "installTool" /\ tasks[i].status = "running"

\* C20: once installTool has started it reaches one of its terminal results
\* (a returned InstallResult), and on the way it runs at most one primary
\* command, each alternate once, each post-install step once, one pass of the
\* Configurator and two existence probes of the tool's command.
C20_ReachesTerminalResult ==
    /\ [](\A i \in DOMAIN tasks : StepsWithinBounds(tasks[i].log, 1))
    /\ InstallToolRunning ~> (\A i \in DOMAIN tasks : tasks[i].status = "returned")

\* the same with the rejected call counted as an end: every started call ends,
\* by a result or by the exception, within the same bounds
EndsWithinBounds ==
    /\ [](\A i \in DOMAIN tasks : StepsWithinBounds(tasks[i].log, 1))
    /\ InstallToolRunning ~> (\A i \in DOMAIN tasks : tasks[i].status \in {"returned", "thrown"})


\* the post-install steps of call k ran once each, in list order, right after
\* the install command that succeeded
PostOnceInOrder(L, k, steps) ==
    /\ Cardinality(EventsOf(L, k, "post")) = Len(steps)
    /\ \A n \in DOMAIN steps :
        \E p \in EventsOf(L, k, "post") :
            /\ L[p].n = n /\ L[p].cmd = steps[n]
            /\ IF n = 1 THEN (p - 1) \in InstallSuccesses(L, k)
               ELSE L[p - 1].kind = "post" /\ L[p - 1].k = k /\ L[p - 1].n = n - 1

\* the result of call k as the outcomes of the other commands fix it: the
\* install command that succeeded, what the Configurator returned, and the
\* final probe; no outcome of a post-install step enters it
ResultApartFromPost(L, k, r) ==
    LET s == CHOOSE e \in InstallSuccesses(L, k) : TRUE
        wrote == \E g \in EventsOf(L, k, "configured") : L[g].ok
        verified == L[r - 1].kind = "verify" /\ L[r - 1].ok
    IN  IF verified \/ wrote
        THEN InstallResult(TRUE, "installed successfully", <<"stdout", L[s].kind, L[s].n>>,
                           IF wrote THEN "true" ELSE "false")
        ELSE SoftFailure

\* C21: after a successful install command every entry of postInstallSteps is
\* executed exactly once, in list order, whatever each step's outcome, and the
\* returned result is the one fixed by the other commands' outcomes: it is the
\* same whether the post-install steps succeeded or failed.
C21_PostStepsAllRunResultUnchanged ==
    \A i \in DOMAIN tasks : \A r \in DOMAIN LogOf(i) :
        LET L == LogOf(i)
            k == L[r].k
        IN  (L[r].kind = "return" /\ InstallSuccesses(L, k) # {})
            => /\ PostOnceInOrder(L, k, postInstallSteps(L[r].tool, L[r].pm))
               /\ L[r].res = ResultApartFromPost(L, k, r)

\* a call with several post-install steps in which an earlier step failed, the
\* later ones ran all the same, and the call returned success
C21_Witness ==
    \E i \in DOMAIN tasks : \E r \in DOMAIN LogOf(i) :
        LET L == LogOf(i) IN
        /\ L[r].kind = "return" /\ L[r].res.success
        /\ \E p, q \in EventsOf(L, L[r].k, "post") :
              /\ L[p].n = 1 /\ ~L[p].ok
              /\ L[q].n = 3 /\ q < r


\* the profile append of call k raised an error
AppendFailed(L, k) == \E a \in EventsOf(L, k, "append") : ~L[a].ok

\* C22: a failure of the profile append is absorbed: when the install command
\* succeeded and the append failed, installTool returns what it would have
\* returned had the append succeeded, which is success (a written profile
\* makes needsRestart true, and line 184 then returns success whatever the
\* final probe says).
C22_AppendFailureAbsorbed ==
    \A i \in DOMAIN tasks : \A r \in DOMAIN LogOf(i) :
        LET L == LogOf(i) IN
        (L[r].kind = "return" /\ InstallSuccesses(L, L[r].k) # {} /\ AppendFailed(L, L[r].k))
            => L[r].res.success

\* what does hold: the append error does not leave installTool as an
\* exception, and the call returns success exactly when the final probe finds
\* the command
AppendFailureLeavesProbe ==
    \A i \in DOMAIN tasks : \A r \in DOMAIN LogOf(i) :
        LET L == LogOf(i) IN
        (L[r].kind = "return" /\ InstallSuccesses(L, L[r].k) # {} /\ AppendFailed(L, L[r].k))
            => /\ L[r - 1].kind = "verify"
               /\ L[r].res.success <=> L[r - 1].ok
               /\ ~L[r].res.success => L[r].res = SoftFailure


\* what the Configurator returned to call k (false when it was not called)
ConfiguratorReturned(L, k) == \E g \in EventsOf(L, k, "configured") : L[g].ok

\* the Configurator appended its block to the profile during call k
WroteProfile(L, k) == \E a \in EventsOf(L, k, "append") : L[a].ok

AsFlag(b) == IF b THEN "true" ELSE "false"

\* C23 as stated: in every result of an installTool call that reached the
\* shell-configuration step, needsRestart equals the Configurator's return
\* value for this call.
C23_RestartEqualsConfigurator ==
    \A i \in DOMAIN tasks : \A r \in DOMAIN LogOf(i) :
        LET L == LogOf(i) IN
        (L[r].kind = "return" /\ InstallSuccesses(L, L[r].k) # {})
            => L[r].res.needsRestart = AsFlag(ConfiguratorReturned(L, L[r].k))

\* C23 amended: the Configurator returns true exactly when it appended to the
\* profile during this call (never for a tool without environment variables
\* or snippet); in every success result that reached the shell-configuration
\* step needsRestart equals that return value; the verification-failed result
\* is returned only when the Configurator returned false, and carries
\* needsRestart = true all the same.
C23_RestartOfSuccessEqualsConfigurator ==
    \A i \in DOMAIN tasks : \A r \in DOMAIN LogOf(i) :
        LET L == LogOf(i)
            k == L[r].k
        IN  (L[r].kind = "return" /\ InstallSuccesses(L, k) # {})
            => /\ ConfiguratorReturned(L, k) <=> WroteProfile(L, k)
               /\ configContent(L[r].tool) = <<>> => ~ConfiguratorReturned(L, k)
               /\ L[r].res.success => L[r].res.needsRestart = AsFlag(ConfiguratorReturned(L, k))
               /\ ~L[r].res.success => (~ConfiguratorReturned(L, k) /\ L[r].res.needsRestart = "true")

\* the Configurator found the marker already in the profile, returned false
\* without appending, and the call returned the verification-failed result
C23_Witness ==
    \E i \in DOMAIN tasks : \E r \in DOMAIN LogOf(i) :
        LET L == LogOf(i)
            k == L[r].k
        IN  /\ L[r].kind = "return" /\ ~L[r].res.success
            /\ InstallSuccesses(L, k) # {}
            /\ EventsOf(L, k, "configured") # {} /\ EventsOf(L, k, "append") = {}
            /\ L[r].res.needsRestart = "true"


\* the install commands a call without a version runs for tool t with manager pm
UnversionedCommands(t, pm) ==
    {packageCmd(t, pm)} \cup {alternativeCommands(t, pm)[n] : n \in DOMAIN alternativeCommands(t, pm)}

\* C24: installTool honours its version option: a call with {version: v} does
\* not execute the install commands the call without a version executes, the
\* command it runs depends on v.
C24_VersionHonoured ==
    \A i \in DOMAIN tasks : \A e \in DOMAIN LogOf(i) :
        LET L == LogOf(i) IN
        (tasks[i].version # "none" /\ L[e].kind \in {"primary", "alt"})
            => L[e].cmd \notin UnversionedCommands(L[e].tool, L[e].pm)


\* position j of the running query is as claimed: the check of a name outside
\* the catalog is settled without waiting on any probe, with installed = false
\* and name and displayName set to the input; the version probe is awaited
\* only after the existence probe answered yes; a status with a version is an
\* installed one
StatusAsClaimed(j) ==
    LET t == check.names[j]
        s == check.st[j]
    IN  /\ t \notin CatalogNames => (check.pc[j] = "settled" /\ s = UnknownStatus(t))
        /\ check.pc[j] = "version" => known[commandToCheck(t)] = "yes"
        /\ check.pc[j] = "settled" => (s.version # "absent" => s.installed)

\* C25: checkToolInstalled does not throw; for a name not in the catalog it
\* returns installed = false, name and displayName set to the input, without
\* running a shell probe; for a catalog name the version probe runs only after
\* the existence probe succeeded, so a status with a version has installed = true.
C25_UnknownNameUnprobed ==
    \A j \in DOMAIN check.pc : StatusAsClaimed(j)

\* the same for every name that is not inherited from Object.prototype
KnownOrAbsentNameAsClaimed ==
    \A j \in DOMAIN check.pc : check.names[j] \notin ObjectPrototypeKeys => StatusAsClaimed(j)


\* the calls of function fn made so far
CallsOf(fn) == {c \in DOMAIN applied : applied[c].fn = fn}

\* C26: needsPackageManagerInstall(os) is true for macOS only, and
\* getPackageManagerInstallCommand(os) returns a command exactly for the OS
\* families for which needsPackageManagerInstall is true: the Homebrew install
\* script for macOS, null for Linux and every other family.
C26_BootstrapOnlyOnMacOS ==
    /\ \A c \in CallsOf("needsPackageManagerInstall") :
          applied[c].result <=> (applied[c].arg = "darwin")
    /\ \A c \in CallsOf("getPackageManagerInstallCommand") :
          /\ (applied[c].result # "null") <=> needsPackageManagerInstall(applied[c].arg)
          /\ applied[c].arg = "darwin" => applied[c].result = HomebrewInstallScript
          /\ applied[c].arg # "darwin" => applied[c].result = "null"

\* both functions were called for Linux: no bootstrap needed, no command
C26_Witness ==
    /\ \E c \in CallsOf("needsPackageManagerInstall") : applied[c].arg = "linux" /\ ~applied[c].result
    /\ \E c \in CallsOf("getPackageManagerInstallCommand") : applied[c].arg = "linux" /\ applied[c].result = "null"


\* the active shell: the file name of $SHELL ("" when unset)
ShellName(shell) == IF shell = <<>> THEN "" ELSE shell[Len(shell)]

\* the profile file the claim gives for a shell name on a platform
ClaimedProfile(name, p) ==
    CASE name = "zsh"  -> ".zshrc"
      [] name = "bash" -> (IF p = "darwin" THEN ".bash_profile" ELSE ".bashrc")
      [] OTHER         -> ".profile"

\* C27: getShellConfigPath maps (active shell, OS family) to the profile file:
\* zsh gives ~/.zshrc on every OS, bash gives ~/.bash_profile on macOS and
\* ~/.bashrc elsewhere, any other or unset shell gives ~/.profile; the result
\* always ends with one of .zshrc, .bashrc, .bash_profile, .profile.
C27_ProfileOfActiveShell ==
    \A c \in CallsOf("getShellConfigPath") :
        /\ applied[c].result.file = ClaimedProfile(ShellName(applied[c].arg.shell), applied[c].arg.platform)
        /\ applied[c].result.file \in {".zshrc", ".bashrc", ".bash_profile", ".profile"}

\* $SHELL names zsh or bash only as its file name
PlainShellPath(shell) == \A j \in 1..(Len(shell) - 1) : shell[j] \notin {"zsh", "bash"}

\* the same for every $SHELL whose directory part contains neither word, and
\* the ending for every $SHELL
ProfileOfPlainShellPath ==
    \A c \in CallsOf("getShellConfigPath") :
        /\ PlainShellPath(applied[c].arg.shell) =>
              applied[c].result.file = ClaimedProfile(ShellName(applied[c].arg.shell), applied[c].arg.platform)
        /\ applied[c].result.file \in {".zshrc", ".bashrc", ".bash_profile", ".profile"}
        /\ applied[c].result.dir \in {"/home/dev", "C:/Users/dev", "~"}


\* a getToolConfig call is consistent with getAllToolNames: defined exactly
\* for the listed names, and the entry's name field is its key
LookupConsistent(c) ==
    /\ applied[c].result.defined <=> (\E j \in DOMAIN getAllToolNames : getAllToolNames[j] = applied[c].arg)
    /\ applied[c].result.defined => applied[c].result.name = applied[c].arg

\* a getToolsByCategory call returned exactly the catalog entries of that category
CategoryExact(c) ==
    /\ \A j \in DOMAIN applied[c].result : category(applied[c].result[j]) = applied[c].arg
    /\ \A t \in CatalogNames :
          category(t) = applied[c].arg => (\E j \in DOMAIN applied[c].result : applied[c].result[j] = t)
    /\ \A j, l \in DOMAIN applied[c].result : applied[c].result[j] = applied[c].result[l] => j = l

\* C30: the catalog accessors are consistent: getToolConfig(n) is defined if
\* and only if n is in getAllToolNames(), every entry's name field equals its
\* key, getToolsByCategory(c) returns exactly the entries whose category is c
\* (none for a category without tools), and getToolConfig of an unknown name
\* is undefined.
C30_AccessorsConsistent ==
    /\ \A c \in CallsOf("getToolConfig") : LookupConsistent(c)
    /\ \A c \in CallsOf("getToolsByCategory") : CategoryExact(c)

\* the same with the names inherited from Object.prototype left out of the lookups
AccessorsConsistentOnOwnNames ==
    /\ \A c \in CallsOf("getToolConfig") : applied[c].arg \notin ObjectPrototypeKeys => LookupConsistent(c)
    /\ \A c \in CallsOf("getToolsByCategory") : CategoryExact(c)
    /\ \A c \in CallsOf("getAllToolNames") : \A j \in DOMAIN applied[c].result : getToolConfig(applied[c].result[j])


\* C28: program start enters exactly one mode: with no arguments, or with
\* --stdio or --mcp among them, the MCP server is started and the CLI is not
\* loaded; with any other arguments the CLI runs and no MCP server is started.
C28_ExactlyOneMode ==
    boot.pc = "done" =>
        IF isMCPMode(boot.args)
        THEN boot.servers >= 1 /\ ~boot.cli
        ELSE boot.cli /\ boot.servers = 0


\* the two failures of a command that printed s: a non-zero exit, and the timeout
NonZeroExit(s) == [ending |-> "nonzero", stdout |-> s]

TimedOut(s) == [ending |-> "timeout", stdout |-> s]

\* what follows a failed primary command of tool t with manager pm in the log:
\* the first alternate, or the failure result when the method has none
FallbackFollows(L, e) ==
    /\ e < Len(L)
    /\ IF alternativeCommands(L[e].tool, L[e].pm) # <<>>
       THEN L[e + 1].kind = "alt" /\ L[e + 1].n = 1 /\ L[e + 1].k = L[e].k
       ELSE /\ L[e + 1].kind = "return" /\ L[e + 1].k = L[e].k
            /\ L[e + 1].res = InstallResult(FALSE, "Failed to install", <<"error", "primary", 0>>, "absent")

\* C29: executeCommand returns a result for every way the command can end,
\* success = false for a non-zero exit and for a timeout alike, with nothing
\* in the result that tells the two apart; commandExists is false on every
\* execution failure; and in installTool a timed-out primary command is
\* followed by the alternate commands exactly as a non-zero exit is.
C29_TimeoutIsCommandFailure ==
    /\ \A raw \in ExecOutcomes :
          /\ executeCommand(raw).success <=> (raw.ending = "exit0")
          /\ raw.ending # "exit0" => ~commandExists(raw)
    /\ \A s \in {"", "text"} : executeCommand(TimedOut(s)) = executeCommand(NonZeroExit(s))
    /\ \A i \in DOMAIN tasks : \A e \in DOMAIN LogOf(i) :
          LET L == LogOf(i) IN
          (L[e].kind = "primary" /\ ~L[e].ok /\ (e < Len(L) \/ tasks[i].pc = "done"))
              => FallbackFollows(L, e)
    /\ \A i \in DOMAIN tasks : \A e \in DOMAIN LogOf(i) : LogOf(i)[e].timedOut => ~LogOf(i)[e].ok

\* the primary command timed out and the first alternate was run
C29_Witness ==
    \E i \in DOMAIN tasks : \E e \in DOMAIN LogOf(i) :
        LET L == LogOf(i) IN
        /\ L[e].kind = "primary" /\ L[e].timedOut
        /\ e < Len(L) /\ L[e + 1].kind = "alt"

----------------------------------------------------------------------------
\* the last probe of the detection that precedes event e found a package manager
DetectedJustBefore(L, e) == e > 1 /\ L[e - 1].kind = "detect" /\ L[e - 1].ok

\* C31: installPackageManager runs the bootstrap install command only on an
\* OS family that needs a bootstrap and only after a detection that found no
\* package manager; it returns success exactly when the last probe of its
\* last detection found a package manager, whatever the exit status of the
\* install command was.
C31_BootstrapOnlyWhenNeeded ==
    \A i \in DOMAIN tasks :
        LET L == LogOf(i) IN
        /\ \A b \in DOMAIN L :
            L[b].kind = "bootstrap" =>
                /\ needsPackageManagerInstall(detectOS(platform))
                /\ b > 1 /\ L[b - 1].kind = "detect"
                /\ \A d \in 1..(b - 1) : L[d].kind = "detect" => ~L[d].ok
        /\ \A r \in DOMAIN L :
            L[r].kind = "pmreturn" =>
                /\ L[r].res.success <=> DetectedJustBefore(L, r)
                /\ L[r].res.success =>
                      \E c \in DOMAIN checkOrder(detectOS(platform)) :
                          ManagerCommand(checkOrder(detectOS(platform))[c]) = L[r - 1].cmd

\* the install command failed and the call still returned success, on the
\* strength of the detection that followed
C31_Witness ==
    \E i \in DOMAIN tasks :
        LET L == LogOf(i) IN
        \E b, r \in DOMAIN L :
            /\ L[b].kind = "bootstrap" /\ ~L[b].ok
            /\ L[r].kind = "pmreturn" /\ r > b /\ L[r].res.success

----------------------------------------------------------------------------
\* in call k the tool was not found installed and the detection found no
\* package manager (on a platform without candidates it probed nothing)
NoManagerDetected(L, k) ==
    /\ \E w \in EventsOf(L, k, "which") : ~L[w].ok
    /\ \A d \in EventsOf(L, k, "detect") : ~L[d].ok

\* C32: a call of installTool for a cataloged tool that is not installed and
\* for which no package manager is detected returns the failure that tells
\* the caller to install a package manager first, and the call runs no install
\* command, alternate or post-install step and does not touch the shell
\* profile.
C32_NoManagerTerminalFailure ==
    \A i \in DOMAIN tasks :
        LET L == LogOf(i) IN
        \A r \in DOMAIN L :
            (L[r].kind = "return" /\ L[r].cmd \in CatalogNames /\ NoManagerDetected(L, L[r].k)) =>
                /\ L[r].res = NoManagerResult
                /\ ~L[r].res.success
                /\ \A f \in Flow(L, L[r].k) : L[f].kind \in {"call", "which", "detect", "return"}
                /\ L[r - 1].kind \in {"which", "detect"}

\* a call on a host with candidates probed them all, found none and returned
C32_Witness ==
    \E i \in DOMAIN tasks :
        LET L == LogOf(i) IN
        \E r \in DOMAIN L :
            /\ L[r].kind = "return" /\ L[r].cmd \in CatalogNames /\ NoManagerDetected(L, L[r].k)
            /\ EventsOf(L, L[r].k, "detect") # {}
            /\ L[r].res = NoManagerResult

----------------------------------------------------------------------------
\* the installTool calls recorded in L
CallsIn(L) == {L[e].k : e \in DOMAIN L} \ {0}

\* the events that run `which <cmd>`
ExistenceProbes == {"which", "verify", "detect"}

\* in call k no step of the kinds given is run twice
RunOnce(L, k, kinds) ==
    \A a \in DOMAIN L :
        (L[a].k = k /\ L[a].kind \in kinds) =>
            \A b \in (a + 1)..Len(L) : ~(L[b].k = k /\ L[b].kind = L[a].kind /\ L[b].n = L[a].n)

\* C33 as stated: within one installTool call the primary command, each
\* alternate and each post-install step is run at most once, and within one
\* operation an existence probe that failed is not run again.
C33_NeverRepeats ==
    \A i \in DOMAIN tasks :
        LET L == LogOf(i) IN
        /\ \A k \in CallsIn(L) : RunOnce(L, k, {"primary", "alt", "post"})
        /\ \A e \in DOMAIN L :
            (L[e].kind \in ExistenceProbes /\ ~L[e].ok) =>
                \A f \in DOMAIN L :
                    (f > e /\ L[f].kind \in ExistenceProbes) => L[f].cmd # L[e].cmd

\* C33 (amended): within one installTool call the primary command, each
\* alternate, each post-install step and each probe of the detection is run
\* at most once; the tool's own command is probed once at the start and at
\* most once more, as the final verification, and that second probe is run
\* only after an install command has succeeded in the call.
C33_NoRetryLoop ==
    \A i \in DOMAIN tasks :
        LET L == LogOf(i) IN
        \A a \in DOMAIN L :
            (L[a].k >= 1 /\ L[a].kind \in {"primary", "alt", "post", "detect", "which", "verify"}) =>
                /\ \A b \in (a + 1)..Len(L) :
                      ~(L[b].k = L[a].k /\ L[b].kind = L[a].kind /\ L[b].n = L[a].n)
                /\ L[a].kind = "verify" =>
                      \E s \in 1..(a - 1) :
                          L[s].k = L[a].k /\ L[s].kind \in {"primary", "alt"} /\ L[s].ok

\* the first probe failed, an install command was run, and the same probe
\* was run again and failed again
C33_Witness ==
    \E i \in DOMAIN tasks :
        LET L == LogOf(i) IN
        \E w, v \in DOMAIN L :
            /\ L[w].kind = "which" /\ ~L[w].ok
            /\ L[v].kind = "verify" /\ ~L[v].ok
            /\ L[v].k = L[w].k /\ L[v].cmd = L[w].cmd /\ w < v

----------------------------------------------------------------------------
\* the last position of name n in the input
LastOccurrence(names, n) ==
    CHOOSE k \in DOMAIN names : names[k] = n /\ \A j \in DOMAIN names : names[j] = n => j <= k

\* C34: when installMultipleTools has returned, installTool was called once
\* for every position of the input, occurrences of the same name included,
\* and the mapping holds for every name the result returned by the call made
\* for its last occurrence.
C34_LastOccurrenceWins ==
    \A i \in DOMAIN tasks :
        LET tk == tasks[i]
            L == tk.log
        IN  (tk.op = "installMultipleTools" /\ tk.status = "returned") =>
                /\ \A k \in DOMAIN tk.names :
                      /\ Cardinality(EventsOf(L, k, "call")) = 1
                      /\ Cardinality(EventsOf(L, k, "return")) = 1
                      /\ \A c \in EventsOf(L, k, "call") : L[c].cmd = tk.names[k]
                /\ DOMAIN tk.results = {tk.names[k] : k \in DOMAIN tk.names}
                /\ \A n \in DOMAIN tk.results :
                      \A r \in EventsOf(L, LastOccurrence(tk.names, n), "return") :
                          tk.results[n] = L[r].res

\* a batch naming one tool twice has returned, and the two calls returned
\* different results
C34_Witness ==
    \E i \in DOMAIN tasks :
        LET tk == tasks[i]
            L == tk.log
        IN  /\ tk.op = "installMultipleTools" /\ tk.status = "returned"
            /\ Len(tk.names) = 2 /\ tk.names[1] = tk.names[2]
            /\ \E a \in EventsOf(L, 1, "return"), b \in EventsOf(L, 2, "return") :
                  L[a].res # L[b].res /\ tk.results[tk.names[1]] = L[b].res

----------------------------------------------------------------------------
\* the probe of command c made in detection run d succeeded
ProbedSuccessfully(d, c) ==
    /\ \E j \in DOMAIN d.probes : d.probes[j] = c
    /\ c \in pmInstalled

\* C35: every descriptor detectPackageManager returns has available = true,
\* its command was probed in that call and the probe succeeded, and its name
\* is one of the candidates of the detected OS family; when the call returns
\* null no probe of the call has succeeded.
C35_AvailableOnlyAfterProbe ==
    \A n \in DOMAIN pmRuns :
        LET d == pmRuns[n]
            candidates == checkOrder(detectOS(platform))
        IN  IF d.name # "none"
            THEN /\ d.available
                 /\ ProbedSuccessfully(d, ManagerCommand(d.name))
                 /\ d.probes[Len(d.probes)] = ManagerCommand(d.name)
                 /\ \E c \in DOMAIN candidates : candidates[c] = d.name
            ELSE /\ ~d.available
                 /\ \A j \in DOMAIN d.probes : d.probes[j] \notin pmInstalled

\* a descriptor was returned after the probe of an earlier candidate failed
C35_Witness ==
    \E n \in DOMAIN pmRuns :
        /\ pmRuns[n].name # "none" /\ pmRuns[n].available
        /\ Len(pmRuns[n].probes) >= 2

----------------------------------------------------------------------------
\* the advice in the order claimed: the package manager, then git, python,
\* nodejs, docker, java
AdviceOrder ==
    <<InstallPMAdvice>> \o [j \in 1..5 |-> ToolAdvice(<<"git", "python", "nodejs", "docker", "java">>[j])]

\* the advice at place a of AdviceOrder is due for the status
AdviceDue(status, a) ==
    IF a = 1 THEN status.packageManager = NullPackageManager
    ELSE \E j \in DOMAIN status.tools :
            /\ status.tools[j].name \in {"git", "python", "nodejs", "docker", "java"}
            /\ ToolAdvice(status.tools[j].name) = AdviceOrder[a]
            /\ ~status.tools[j].installed

\* C36: getRecommendations(status) holds the package-manager advice exactly
\* when status.packageManager is null and the advice for git, python, nodejs,
\* docker and java exactly when that tool is listed in status.tools as not
\* installed, each once and in that fixed order whatever the order of
\* status.tools; the call runs no command and changes nothing.
C36_RecommendationsByFixedRules ==
    /\ \A c \in CallsOf("getRecommendations") :
          LET status == applied[c].arg
              recs == applied[c].result
          IN  /\ \A a \in DOMAIN AdviceOrder :
                    AdviceDue(status, a) <=> \E j \in DOMAIN recs : recs[j] = AdviceOrder[a]
              /\ \A j \in DOMAIN recs : \E a \in DOMAIN AdviceOrder : recs[j] = AdviceOrder[a]
              /\ \A j, l \in DOMAIN recs :
                    j < l => \E a, b \in DOMAIN AdviceOrder :
                                a < b /\ recs[j] = AdviceOrder[a] /\ recs[l] = AdviceOrder[b]
    /\ CallsOf("getRecommendations") # {} =>
          /\ \A cmd \in AllCommands : known[cmd] = "unprobed"
          /\ DOMAIN tasks = {} /\ check = NoCheck /\ profile = <<>>

\* the advice for git came before the advice for java although the status
\* lists java first, and an unlisted tool got no advice
C36_Witness ==
    \E c \in CallsOf("getRecommendations") :
        LET status == applied[c].arg
            recs == applied[c].result
        IN  /\ Len(status.tools) >= 2
            /\ status.tools[1].name = "java" /\ ~status.tools[1].installed
            /\ status.tools[Len(status.tools)].name = "git" /\ ~status.tools[Len(status.tools)].installed
            /\ \A j \in DOMAIN status.tools : status.tools[j].name # "docker"
            /\ Len(recs) >= 2
            /\ recs[2] = ToolAdvice("git") /\ recs[Len(recs)] = ToolAdvice("java")

----------------------------------------------------------------------------
\* the place of each kind of event in the order of installTool's steps
StepRank(kind) ==
    CASE kind = "call"       -> 0
      [] kind = "which"      -> 1
      [] kind = "detect"     -> 2
      [] kind = "primary"    -> 3
      [] kind = "alt"        -> 4
      [] kind = "post"       -> 5
      [] kind = "read"       -> 6
      [] kind = "append"     -> 7
      [] kind = "configured" -> 8
      [] kind = "verify"     -> 9
      [] OTHER               -> 10

\* the events of installTool that run a shell command
ShellCommandKinds == {"which", "detect", "primary", "alt", "post", "verify"}

\* before event a, call k probed the verify command, detected a package
\* manager with an install method for the tool, and saw an install command succeed
InstalledBefore(L, k, a) ==
    \E s \in 1..(a - 1) :
        /\ L[s].k = k /\ L[s].kind \in {"primary", "alt"} /\ L[s].ok
        /\ HasMethod(L[a].tool, L[s].pm)
        /\ \E d \in 1..(s - 1) :
              /\ L[d].k = k /\ L[d].kind = "detect" /\ L[d].ok
              /\ L[d].cmd = ManagerCommand(L[s].pm)
              /\ \E w \in 1..(d - 1) :
                    /\ L[w].k = k /\ L[w].kind = "which" /\ ~L[w].ok
                    /\ L[w].cmd = commandToCheck(L[a].tool)

\* C37: within one installTool call the steps happen in the fixed order
\* existence probe, detection, primary command, alternates, post-install
\* steps, profile read, profile append, verification, return; the profile is
\* read or appended to only after the verify command was probed, a package
\* manager with an install method was detected and an install command
\* succeeded in the same call; and no shell command of the call follows the
\* verification probe.
C37_StepsInFixedOrder ==
    \A i \in DOMAIN tasks :
        LET L == LogOf(i) IN
        \A e \in DOMAIN L :
            L[e].k >= 1 =>
                \* the events of a call are one stretch of the log that starts with the call
                /\ (e = 1 \/ L[e - 1].k # L[e].k) <=> L[e].kind = "call"
                /\ L[e].kind = "call" =>
                      \A f \in (e + 1)..Len(L) : ~(L[f].kind = "call" /\ L[f].k = L[e].k)
                \* and are in the order of the steps
                /\ (e < Len(L) /\ L[e + 1].k = L[e].k) =>
                      /\ StepRank(L[e].kind) <= StepRank(L[e + 1].kind)
                      /\ L[e].kind = "verify" => L[e + 1].kind \notin ShellCommandKinds
                /\ L[e].kind \in {"read", "append", "write"} => InstalledBefore(L, L[e].k, e)

\* a call appended to the profile after an alternate command had succeeded,
\* ran the verification probe and returned
C37_Witness ==
    \E i \in DOMAIN tasks :
        LET L == LogOf(i) IN
        \E a, v, r \in DOMAIN L :
            /\ L[a].kind = "append" /\ L[a].ok /\ L[a].k >= 1
            /\ L[v].kind = "verify" /\ L[v].k = L[a].k /\ a < v
            /\ L[r].kind = "return" /\ L[r].k = L[a].k /\ v < r
            /\ \E s \in EventsOf(L, L[a].k, "alt") : L[s].ok

----------------------------------------------------------------------------
\* calls k and k + 1 of the batch are for the same cataloged tool, and call k
\* returned success
RepeatedAfterSuccess(tk, k) ==
    /\ k + 1 \in DOMAIN tk.names
    /\ tk.names[k] = tk.names[k + 1]
    /\ tk.names[k] \in CatalogNames
    /\ \E r \in EventsOf(tk.log, k, "return") : tk.log[r].res.success

\* the second call runs no install command and does not return a failure
SecondCallStable(L, k) ==
    /\ \A e \in Flow(L, k) : L[e].kind \notin {"primary", "alt"}
    /\ \A r \in EventsOf(L, k, "return") : L[r].res.success

\* C38: when installTool(x) has returned success and installTool(x) is called
\* again at once, with every command answering as before and the profile as
\* the first call left it, the second call runs no install command and
\* returns success.
C38_RepeatIsStable ==
    \A i \in DOMAIN tasks :
        LET tk == tasks[i] IN
        tk.op = "installMultipleTools" =>
            \A k \in DOMAIN tk.names :
                RepeatedAfterSuccess(tk, k) => SecondCallStable(tk.log, k + 1)

\* the same when the first call saw the tool's command on PATH, at its first
\* probe or at its verification
RepeatIsStableOnceOnPath ==
    \A i \in DOMAIN tasks :
        LET tk == tasks[i] IN
        tk.op = "installMultipleTools" =>
            \A k \in DOMAIN tk.names :
                (/\ RepeatedAfterSuccess(tk, k)
                 /\ \E p \in Flow(tk.log, k) : tk.log[p].kind \in {"which", "verify"} /\ tk.log[p].ok)
                => SecondCallStable(tk.log, k + 1)

----------------------------------------------------------------------------
\* the events made by the installers of tools (the package manager step
\* makes detection probes, runs the bootstrap command and returns)
ToolInstallKinds == {"call", "which", "primary", "alt", "post", "read", "append", "write", "verify", "ide"}

\* the package manager step came first and returned success before event e
AfterPackageManager(L, e) ==
    \E r \in 1..(e - 1) :
        /\ L[r].kind = "pmreturn" /\ L[r].res.success
        /\ \A f \in 1..(r - 1) : L[f].kind \in {"detect", "bootstrap"}

\* none of the names in `names` is attempted in the flow of task tk
NotAttempted(tk, names) ==
    /\ \A e \in DOMAIN tk.log : tk.log[e].kind = "call" => tk.log[e].cmd \notin names
    /\ "android" \in names =>
          /\ tk.op # "installAndroidStudio"
          /\ \A e \in DOMAIN tk.log : tk.log[e].kind # "ide"

\* the flow has ended
SetupEnded(tk) == tk.pc = "setup_done" \/ tk.status = "thrown"

\* every step of the plan was begun although steps before it failed
AllStepsBegun(tk) ==
    LET plan == PlanOf(tk)
        L == tk.log
    IN  \A s \in DOMAIN plan :
            /\ \A n \in DOMAIN plan[s].names :
                  \E e \in DOMAIN L : L[e].kind = "call" /\ L[e].cmd = plan[s].names[n]
            /\ plan[s].op = "installAndroidStudio" =>
                  \/ tk.op = "installAndroidStudio"
                  \/ \E e \in DOMAIN L : L[e].kind = "result" /\ L[e].cmd = "installAndroidStudio"

\* the properties of the flow that do not depend on what the skip list means
SetupOrder(tk) ==
    /\ \A e \in DOMAIN tk.log :
          tk.log[e].kind \in ToolInstallKinds => AfterPackageManager(tk.log, e)
    /\ (SetupEnded(tk) /\ \E r \in DOMAIN tk.log : tk.log[r].kind = "pmreturn" /\ tk.log[r].res.success)
          => AllStepsBegun(tk)

\* C39: in setup_all and in install-all the package manager step runs first
\* and nothing of a tool's installation is run unless installPackageManager
\* has returned success; no tool named in the skip list is attempted; and
\* when the flow ends after a successful package manager step, every tool
\* not skipped has been attempted, whatever the tools before it returned.
C39_SetupAllOrderAndSkip ==
    \A i \in DOMAIN tasks :
        LET tk == tasks[i] IN
        tk.outer # "none" => SetupOrder(tk) /\ NotAttempted(tk, tk.skip)

\* the same with the skip list read as a list of the flow's own steps:
\* python, nodejs, git, flutter and android
SetupAllHonoursItsSteps ==
    \A i \in DOMAIN tasks :
        LET tk == tasks[i] IN
        tk.outer # "none" =>
            SetupOrder(tk) /\ NotAttempted(tk, tk.skip \cap {"python", "nodejs", "git", "flutter", "android"})

\* a flow in which a tool failed and the tool after it was attempted
SetupWentOnAfterFailure ==
    \E i \in DOMAIN tasks :
        LET L == LogOf(i) IN
        /\ tasks[i].outer # "none"
        /\ \E r, c \in DOMAIN L :
              /\ L[r].kind = "return" /\ ~L[r].res.success
              /\ L[c].kind = "call" /\ c > r /\ L[c].cmd # L[r].cmd

====
